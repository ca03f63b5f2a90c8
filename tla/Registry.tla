------------------------------ MODULE Registry ------------------------------
(***************************************************************************)
(* The core's node registry (internal/registry/registry.go) together with  *)
(* the three things its handlers drive - the address and sub-prefix        *)
(* allocators, the WireGuard interface and the set of BGP neighbours - and *)
(* the health checker (internal/health/checker.go) that sweeps it.         *)
(*                                                                         *)
(* Every HTTP request runs in a goroutine of its own.  Registry.mu covers  *)
(* only part of a handler: handleDeleteNode unlocks before it releases     *)
(* anything, handleRegister unlocks before it configures the peers, and    *)
(* the BGP neighbour is added by yet another goroutine.  A slot of `th`    *)
(* is one such goroutine; its steps are the stretches of the handler       *)
(* between two points where another goroutine can act.                     *)
(*                                                                         *)
(* Time is kept as far as the checker can tell: fresh says whether the     *)
(* last heartbeat is younger than the timeout.                             *)
(***************************************************************************)
EXTENDS SubnetAllocator, WGIPAllocator, WGDevice, FiniteSets

CONSTANTS
    Slots,              \* goroutines the HTTP server may run at once
    KeyOwner,           \* KeyOwner[k]: the node that may present key k
    RequestsOverlap,    \* may requests about the same node overlap?  (see
                        \* RegisterAllowed below)
    NetlinkFaults,      \* may the kernel refuse a WireGuard change?
    BGPFaults,          \* may GoBGP refuse a neighbour?
    CoreRestarts,       \* may the core process restart?
    NodesFallSilent     \* may a node's heartbeats stop for a whole timeout?

ASSUME KeyOwnerIsFunction == KeyOwner \in [Keys -> Nodes]
ASSUME FlagsAreBoolean ==
    {RequestsOverlap, NetlinkFaults, BGPFaults, CoreRestarts, NodesFallSilent}
        \subseteq BOOLEAN
ASSUME NoneIsNothing == None \notin Slots \cup Keys \cup SubnetIDs

VARIABLES
    nodes,              \* Registry.nodes; state "absent" is a missing map key
    mu,                 \* the goroutine that keeps Registry.mu across steps
    th,                 \* the goroutines
    bgpPeers,           \* neighbour addresses configured in the BGP server
    checker,            \* the sweep loop
    wgErr               \* nodes whose WireGuard peer failed to be added
                        \* (only logged: the handler keeps no trace of it)

vars == <<nodes, mu, th, pool, assigned, subnets, wgPeers, allowedIPs,
          bgpPeers, checker, wgErr>>

allocVars == <<pool, assigned, subnets>>

-----------------------------------------------------------------------------
NodeStates == {"absent", "pending", "active", "down"}

NodeRecord == [state  : NodeStates,
               key    : Keys \cup {None},
               wgIP   : IPs \cup {None},
               subnet : SubnetIDs \cup {None},
               fresh  : BOOLEAN]

NoNode == [state |-> "absent", key |-> None, wgIP |-> None,
           subnet |-> None, fresh |-> FALSE]

Registered(n) == nodes[n].state # "absent"

RegisterSteps == {"reg_subnet", "reg_rollback", "reg_wg", "reg_bgp"}
DeleteSteps   == {"del_subnet", "del_ip", "del_wg", "del_bgp", "del_down"}

Thread == [pc     : {"idle", "up"} \cup RegisterSteps \cup DeleteSteps,
           node   : Nodes \cup {None},
           key    : Keys \cup {None},
           ip     : IPs \cup {None},
           subnet : SubnetIDs \cup {None}]

IdleThread == [pc |-> "idle", node |-> None, key |-> None, ip |-> None,
               subnet |-> None]

\* A goroutine executes one of the given steps for node n.
InFlight(n, steps) == \E s \in Slots : th[s].node = n /\ th[s].pc \in steps

Idle(s) == th[s].pc = "idle"

CheckerState == [pc   : {"sweeping", "callback"},
                 todo : SUBSET Nodes,
                 node : Nodes \cup {None},
                 ip   : IPs \cup {None}]

IdleChecker == [pc |-> "sweeping", todo |-> {}, node |-> None, ip |-> None]

\* The two AllowedIPs of a node's WireGuard peer.
Host(ip) == <<"host", ip>>
Net(s)   == <<"net", s>>
Prefixes == {Host(ip) : ip \in IPs} \cup {Net(s) : s \in SubnetIDs}

TypeOK ==
    /\ nodes \in [Nodes -> NodeRecord]
    /\ mu \in Slots \cup {None}
    /\ th \in [Slots -> Thread]
    /\ WGIPTypeOK
    /\ SubnetTypeOK
    /\ wgPeers \in SUBSET Keys
    /\ allowedIPs \in [Keys -> SUBSET Prefixes]
    /\ bgpPeers \in SUBSET IPs
    /\ checker \in CheckerState
    /\ wgErr \in SUBSET Nodes

Init ==
    /\ nodes = [n \in Nodes |-> NoNode]
    /\ mu = None
    /\ th = [s \in Slots |-> IdleThread]
    /\ WGIPInit
    /\ SubnetInit
    /\ WGInit
    /\ bgpPeers = {}
    /\ checker = IdleChecker
    /\ wgErr = {}

-----------------------------------------------------------------------------
(***************************************************************************)
(* The environment.  With RequestsOverlap = TRUE anything may overlap.     *)
(* Otherwise the requests about one node come one after the other: it is   *)
(* not removed before its own registration is through, it does not         *)
(* register again before its removal and the sweep that was about to mark  *)
(* it are, and a heartbeat lapses (90 s) only after its registration.      *)
(* Requests about different nodes overlap in any case, and so do the       *)
(* checker, heartbeats and removals.                                       *)
(***************************************************************************)
RegisterAllowed(n) ==
    \/ RequestsOverlap
    \/ /\ ~ InFlight(n, DeleteSteps)
       /\ n \notin checker.todo
       /\ checker.node # n

DeleteAllowed(n) == RequestsOverlap \/ ~ InFlight(n, RegisterSteps)

LapseAllowed(n) ==
    /\ NodesFallSilent
    /\ RequestsOverlap \/ ~ InFlight(n, RegisterSteps)

-----------------------------------------------------------------------------
(***************************************************************************)
(* Faulty variants for the mutants.                                        *)
(***************************************************************************)

\* handleRegister without its idempotence check: the record is overwritten.
RegisterExistingOverwriting(s, n, k) ==
    /\ mu = None
    /\ Idle(s)
    /\ Registered(n)
    /\ nodes' = [nodes EXCEPT ![n] = [@ EXCEPT !.key = k, !.state = "pending"]]
    /\ UNCHANGED <<mu, th, allocVars, wgVars, bgpPeers, checker, wgErr>>

\* The rollback returns without `r.mu.Unlock()`.
RegisterRollbackStillLocked(s) ==
    /\ th[s].pc = "reg_rollback"
    /\ ReleaseWGIP(th[s].node)
    /\ th' = [th EXCEPT ![s] = IdleThread]
    /\ UNCHANGED <<nodes, mu, subnets, wgVars, bgpPeers, checker, wgErr>>

\* The rollback calls something that locks Registry.mu once more.
RegisterRollbackLockingTwice(s) ==
    /\ th[s].pc = "reg_rollback"
    /\ mu = None
    /\ ReleaseWGIP(th[s].node)
    /\ th' = [th EXCEPT ![s] = IdleThread]
    /\ UNCHANGED <<nodes, mu, subnets, wgVars, bgpPeers, checker, wgErr>>

\* handleRegister misses the `return` after "WireGuard IP pool exhausted".
RegisterNoIPGoesOn(s, n) ==
    /\ mu = None
    /\ Idle(s)
    /\ ~ Registered(n)
    /\ RegisterAllowed(n)
    /\ WGIPsExhausted(n)
    /\ mu' = s
    /\ th' = [th EXCEPT ![s] = [IdleThread EXCEPT !.pc = "reg_subnet", !.node = n]]
    /\ UNCHANGED <<nodes, allocVars, wgVars, bgpPeers, checker, wgErr>>

\* handleDeleteNode releases the sub-prefix but not the tunnel address.
DeleteReleaseIPForgotten(s) ==
    /\ th[s].pc = "del_ip"
    /\ th' = [th EXCEPT ![s].pc = "del_wg"]
    /\ UNCHANGED <<nodes, mu, allocVars, wgVars, bgpPeers, checker, wgErr>>

\* MarkDown returns after the state change, without the callback.
MarkDownSilently(n) ==
    /\ checker.pc = "sweeping"
    /\ n \in checker.todo
    /\ mu = None
    /\ checker' = [checker EXCEPT !.todo = @ \ {n}]
    /\ nodes' = IF Registered(n) THEN [nodes EXCEPT ![n].state = "down"] ELSE nodes
    /\ UNCHANGED <<mu, th, allocVars, wgVars, bgpPeers, wgErr>>

\* handleRegister leases anew when a known node presents another key.
RegisterExistingRenewed(s, n, k) ==
    /\ mu = None
    /\ Idle(s)
    /\ Registered(n)
    /\ IF nodes[n].key = k \/ pool = <<>>
       THEN UNCHANGED <<nodes, pool, assigned>>
       ELSE /\ nodes' = [nodes EXCEPT ![n].wgIP = Head(pool)]
            /\ pool' = Append(Tail(pool), nodes[n].wgIP)
            /\ assigned' = [assigned EXCEPT ![n] = Head(pool)]
    /\ UNCHANGED <<mu, th, subnets, wgVars, bgpPeers, checker, wgErr>>

\* Speaker.RemovePeer asks for an address GoBGP does not know.
RemoveBGPPeerNotFound(ip) == UNCHANGED bgpPeers

\* handleDeleteNode forgets the address before it is needed.
DeleteRecordForgettingIP(s, n) ==
    /\ mu = None
    /\ Idle(s)
    /\ Registered(n)
    /\ DeleteAllowed(n)
    /\ nodes' = [nodes EXCEPT ![n] = NoNode]
    /\ th' = [th EXCEPT ![s] = [pc |-> "del_subnet", node |-> n,
                                key |-> nodes[n].key, ip |-> None,
                                subnet |-> None]]
    /\ wgErr' = wgErr \ {n}
    /\ UNCHANGED <<mu, allocVars, wgVars, bgpPeers, checker>>
-----------------------------------------------------------------------------
(***************************************************************************)
(* What the registry calls outside its own state.                          *)
(***************************************************************************)

\* Speaker.AddPeer: GoBGP refuses a neighbour it has already, and may refuse
\* another; either is only logged (registry.go:313-315).
AddBGPPeer(ip) ==
    \/ bgpPeers' = bgpPeers \cup {ip}
    \/ BGPFaults /\ UNCHANGED bgpPeers

\* Speaker.RemovePeer: GoBGP refuses to delete an unknown neighbour (ditto).
RemoveBGPPeer(ip) == bgpPeers' = bgpPeers \ {ip}

\* The callbacks cmd/core passes: OnNodeUp only logs.
OnNodeUp(ip)   == UNCHANGED bgpPeers
OnNodeDown(ip) == RemoveBGPPeer(ip)

-----------------------------------------------------------------------------
(***************************************************************************)
(* POST /nodes/register                                                    *)
(***************************************************************************)

\* The node is known: answer with its record.  The request's key, address
\* and port are ignored and the record keeps its state.
RegisterExisting(s, n, k) ==
    /\ mu = None
    /\ Idle(s)
    /\ Registered(n)
    /\ UNCHANGED vars

\* Lock, find no record, take a tunnel address; the lock is kept.
RegisterAllocateIP(s, n, k) ==
    /\ mu = None
    /\ Idle(s)
    /\ ~ Registered(n)
    /\ RegisterAllowed(n)
    /\ \E ip \in IPs :
         /\ AllocateWGIP(n, ip)
         /\ th' = [th EXCEPT ![s] = [pc |-> "reg_subnet", node |-> n, key |-> k,
                                     ip |-> ip, subnet |-> None]]
    /\ mu' = s
    /\ UNCHANGED <<nodes, subnets, wgVars, bgpPeers, checker, wgErr>>

\* No tunnel address is left: 503, nothing has changed.
RegisterNoIP(s, n) ==
    /\ mu = None
    /\ Idle(s)
    /\ ~ Registered(n)
    /\ RegisterAllowed(n)
    /\ WGIPsExhausted(n)
    /\ UNCHANGED vars

\* Still locked: take a sub-prefix, insert the record, unlock.
RegisterInsert(s) ==
    /\ th[s].pc = "reg_subnet"
    /\ \E sub \in SubnetIDs :
         /\ AllocateSubnet(th[s].node, sub)
         /\ nodes' = [nodes EXCEPT ![th[s].node] =
                        [state |-> "pending", key |-> th[s].key, wgIP |-> th[s].ip,
                         subnet |-> sub, fresh |-> TRUE]]
         /\ th' = [th EXCEPT ![s] = [@ EXCEPT !.pc = "reg_wg", !.subnet = sub]]
    /\ mu' = None
    /\ UNCHANGED <<wgipVars, wgVars, bgpPeers, checker, wgErr>>

\* No sub-prefix is left.
RegisterNoSubnet(s) ==
    /\ th[s].pc = "reg_subnet"
    /\ SubnetsExhausted(th[s].node)
    /\ th' = [th EXCEPT ![s].pc = "reg_rollback"]
    /\ UNCHANGED <<nodes, mu, allocVars, wgVars, bgpPeers, checker, wgErr>>

\* Give the tunnel address back, unlock, 503.
RegisterRollback(s) ==
    /\ th[s].pc = "reg_rollback"
    /\ ReleaseWGIP(th[s].node)
    /\ mu' = None
    /\ th' = [th EXCEPT ![s] = IdleThread]
    /\ UNCHANGED <<nodes, subnets, wgVars, bgpPeers, checker, wgErr>>

\* Unlocked: configure the node's WireGuard peer.  A failure is logged and
\* the registration goes on.
RegisterAddWGPeer(s) ==
    /\ th[s].pc = "reg_wg"
    /\ \/ /\ AddWGPeer(th[s].key, {Host(th[s].ip), Net(th[s].subnet)})
          /\ UNCHANGED wgErr
       \/ /\ NetlinkFaults
          /\ wgErr' = wgErr \cup {th[s].node}
          /\ UNCHANGED wgVars
    /\ th' = [th EXCEPT ![s].pc = "reg_bgp"]
    /\ UNCHANGED <<nodes, mu, allocVars, bgpPeers, checker>>

\* The goroutine handleRegister leaves behind adds the BGP neighbour.
RegisterAddBGPPeer(s) ==
    /\ th[s].pc = "reg_bgp"
    /\ AddBGPPeer(th[s].ip)
    /\ th' = [th EXCEPT ![s].pc = "up"]
    /\ UNCHANGED <<nodes, mu, allocVars, wgVars, checker, wgErr>>

\* It, or the goroutine of a recovering heartbeat, calls OnNodeUp.
NodeUpCallback(s) ==
    /\ th[s].pc = "up"
    /\ OnNodeUp(th[s].ip)
    /\ th' = [th EXCEPT ![s] = IdleThread]
    /\ UNCHANGED <<nodes, mu, allocVars, wgVars, checker, wgErr>>

-----------------------------------------------------------------------------
(***************************************************************************)
(* POST /nodes/{id}/heartbeat.  An unknown node gets 404 and nothing       *)
(* changes.                                                                *)
(***************************************************************************)
Refreshed(n) == [nodes EXCEPT ![n] = [@ EXCEPT !.fresh = TRUE, !.state = "active"]]

Heartbeat(n) ==
    /\ mu = None
    /\ nodes[n].state \in {"pending", "active"}
    /\ nodes' = Refreshed(n)
    /\ UNCHANGED <<mu, th, allocVars, wgVars, bgpPeers, checker, wgErr>>

\* The node was down: a new goroutine will call OnNodeUp.
HeartbeatRecovery(s, n) ==
    /\ mu = None
    /\ Idle(s)
    /\ nodes[n].state = "down"
    /\ nodes' = Refreshed(n)
    /\ th' = [th EXCEPT ![s] = [IdleThread EXCEPT !.pc = "up", !.node = n,
                                                  !.ip = nodes[n].wgIP]]
    /\ UNCHANGED <<mu, allocVars, wgVars, bgpPeers, checker, wgErr>>

\* The last heartbeat of n becomes older than the timeout.
Lapse(n) ==
    /\ Registered(n)
    /\ nodes[n].fresh
    /\ LapseAllowed(n)
    /\ nodes' = [nodes EXCEPT ![n].fresh = FALSE]
    /\ UNCHANGED <<mu, th, allocVars, wgVars, bgpPeers, checker, wgErr>>

-----------------------------------------------------------------------------
(***************************************************************************)
(* DELETE /nodes/{id}.  An unknown node gets 404 and nothing changes.      *)
(***************************************************************************)

\* The record goes first; the lock is released before anything else.
DeleteRecord(s, n) ==
    /\ mu = None
    /\ Idle(s)
    /\ Registered(n)
    /\ DeleteAllowed(n)
    /\ nodes' = [nodes EXCEPT ![n] = NoNode]
    /\ th' = [th EXCEPT ![s] = [pc |-> "del_subnet", node |-> n,
                                key |-> nodes[n].key, ip |-> nodes[n].wgIP,
                                subnet |-> None]]
    /\ wgErr' = wgErr \ {n}
    /\ UNCHANGED <<mu, allocVars, wgVars, bgpPeers, checker>>

\* The allocators are keyed by node id, not by what the record held.
DeleteReleaseSubnet(s) ==
    /\ th[s].pc = "del_subnet"
    /\ ReleaseSubnet(th[s].node)
    /\ th' = [th EXCEPT ![s].pc = "del_ip"]
    /\ UNCHANGED <<nodes, mu, wgipVars, wgVars, bgpPeers, checker, wgErr>>

DeleteReleaseIP(s) ==
    /\ th[s].pc = "del_ip"
    /\ ReleaseWGIP(th[s].node)
    /\ th' = [th EXCEPT ![s].pc = "del_wg"]
    /\ UNCHANGED <<nodes, mu, subnets, wgVars, bgpPeers, checker, wgErr>>

\* A failure is logged; the peer then stays on the interface.
DeleteRemoveWGPeer(s) ==
    /\ th[s].pc = "del_wg"
    /\ \/ RemoveWGPeer(th[s].key)
       \/ NetlinkFaults /\ UNCHANGED wgVars
    /\ th' = [th EXCEPT ![s].pc = "del_bgp"]
    /\ UNCHANGED <<nodes, mu, allocVars, bgpPeers, checker, wgErr>>

DeleteRemoveBGPPeer(s) ==
    /\ th[s].pc = "del_bgp"
    /\ RemoveBGPPeer(th[s].ip)
    /\ th' = [th EXCEPT ![s].pc = "del_down"]
    /\ UNCHANGED <<nodes, mu, allocVars, wgVars, checker, wgErr>>

\* OnNodeDown removes the neighbour a second time.
DeleteNodeDownCallback(s) ==
    /\ th[s].pc = "del_down"
    /\ OnNodeDown(th[s].ip)
    /\ th' = [th EXCEPT ![s] = IdleThread]
    /\ UNCHANGED <<nodes, mu, allocVars, wgVars, checker, wgErr>>

-----------------------------------------------------------------------------
(***************************************************************************)
(* The health checker: one goroutine.                                      *)
(***************************************************************************)

\* sweep() takes a copy of the records under the read lock and picks the
\* nodes to mark from that copy.
Sweep ==
    /\ checker.pc = "sweeping"
    /\ checker.todo = {}
    /\ mu = None
    /\ checker' = [checker EXCEPT !.todo =
         {n \in Nodes : nodes[n].state \in {"pending", "active"} /\ ~ nodes[n].fresh}]
    /\ UNCHANGED <<nodes, mu, th, allocVars, wgVars, bgpPeers, wgErr>>

\* MarkDown(n), up to its unlock.  It looks at the state again, not at the
\* last heartbeat.
MarkDown(n) ==
    /\ checker.pc = "sweeping"
    /\ n \in checker.todo
    /\ mu = None
    /\ \/ /\ nodes[n].state \in {"pending", "active"}
          /\ nodes' = [nodes EXCEPT ![n].state = "down"]
          /\ checker' = [pc |-> "callback", todo |-> checker.todo \ {n},
                         node |-> n, ip |-> nodes[n].wgIP]
       \/ /\ nodes[n].state \in {"absent", "down"}
          /\ checker' = [checker EXCEPT !.todo = @ \ {n}]
          /\ UNCHANGED nodes
    /\ UNCHANGED <<mu, th, allocVars, wgVars, bgpPeers, wgErr>>

\* MarkDown's callback, after the unlock; then the checker's own (a log line).
MarkDownCallback ==
    /\ checker.pc = "callback"
    /\ OnNodeDown(checker.ip)
    /\ checker' = [checker EXCEPT !.pc = "sweeping", !.node = None, !.ip = None]
    /\ UNCHANGED <<nodes, mu, th, allocVars, wgVars, wgErr>>

-----------------------------------------------------------------------------
\* The core process stops at any point and starts again: everything in its
\* memory is gone, the kernel's WireGuard interface is not.
RestartCore ==
    /\ CoreRestarts
    /\ nodes' = [n \in Nodes |-> NoNode]
    /\ mu' = None
    /\ th' = [s \in Slots |-> IdleThread]
    /\ pool' = [i \in IPs |-> i]
    /\ assigned' = [n \in Nodes |-> None]
    /\ subnets' = [s \in SubnetIDs |-> None]
    /\ bgpPeers' = {}
    /\ checker' = IdleChecker
    /\ wgErr' = {}
    /\ UNCHANGED wgVars

\* What a running goroutine does next; none of it waits for Registry.mu.
ThreadStep(s) ==
    \/ RegisterInsert(s)
    \/ RegisterNoSubnet(s)
    \/ RegisterRollback(s)
    \/ RegisterAddWGPeer(s)
    \/ RegisterAddBGPPeer(s)
    \/ NodeUpCallback(s)
    \/ DeleteReleaseSubnet(s)
    \/ DeleteReleaseIP(s)
    \/ DeleteRemoveWGPeer(s)
    \/ DeleteRemoveBGPPeer(s)
    \/ DeleteNodeDownCallback(s)

\* A request arrives and gets the lock.
Request(s) ==
    \/ \E k \in Keys : RegisterExisting(s, KeyOwner[k], k)
    \/ \E k \in Keys : RegisterAllocateIP(s, KeyOwner[k], k)
    \/ \E n \in Nodes : RegisterNoIP(s, n)
    \/ \E n \in Nodes : HeartbeatRecovery(s, n)
    \/ \E n \in Nodes : DeleteRecord(s, n)

CheckerStep ==
    \/ Sweep
    \/ \E n \in Nodes : MarkDown(n)
    \/ MarkDownCallback

Next ==
    \/ \E s \in Slots : ThreadStep(s) \/ Request(s)
    \/ \E n \in Nodes : Heartbeat(n) \/ Lapse(n)
    \/ CheckerStep
    \/ RestartCore

Spec == Init /\ [][Next]_vars

(***************************************************************************)
(* Go schedules every runnable goroutine, the ticker keeps ticking, and    *)
(* sync.RWMutex starves no waiter: a checker that waits for a lock that is *)
(* free again and again gets it.  Nothing obliges a client to send a       *)
(* request, a heartbeat to lapse or the core to restart.                   *)
(***************************************************************************)
Fairness ==
    /\ \A s \in Slots : WF_vars(ThreadStep(s))
    /\ SF_vars(Sweep)
    /\ \A n \in Nodes : SF_vars(MarkDown(n))
    /\ WF_vars(MarkDownCallback)

FairSpec == Spec /\ Fairness

-----------------------------------------------------------------------------
(***************************************************************************)
(* Safety under any interleaving.                                          *)
(***************************************************************************)

\* A goroutine that stopped between Lock and Unlock owns the lock, so no two
\* registrations are ever between the allocation of their address and the
\* insertion of their record (registry.go:252-292).
CriticalSectionOwnsLock ==
    \A s \in Slots : th[s].pc \in {"reg_subnet", "reg_rollback"} <=> mu = s

\* A node that is not registered, and that no request is busy with, holds
\* neither an address nor a sub-prefix: every removal and every failed
\* registration gives back all it took (registry.go:273, 391-394), also when
\* removals and registrations of the same node overlap.
NoLeakedAddresses ==
    \A n \in Nodes :
        ~ Registered(n) /\ ~ InFlight(n, RegisterSteps \cup DeleteSteps)
            => assigned[n] = None /\ SubnetsOf(n) = {}

\* The nodes that are registered or that a goroutine executes such a step for.
Occupants(steps) == {n \in Nodes : Registered(n) \/ InFlight(n, steps)}

\* The registry runs out only when it is full: whenever the next registration
\* would be answered 503, as many nodes as there are addresses, or
\* sub-prefixes, are registered or in the middle of taking or giving one back
\* (registry.go:266, 275), also after any number of failed registrations,
\* overlapping removals and restarts.
RefusalsAreJustified ==
    /\ pool = <<>> => NumIPs <= Cardinality(
           Occupants({"reg_subnet", "reg_rollback", "del_subnet", "del_ip"}))
    /\ FreeSubnets = {} => NumSubnets <= Cardinality(Occupants({"del_subnet"}))

\* The addresses of registered nodes; those that a removal is about to
\* withdraw; and those that the checker is about to withdraw, too.
Leased      == {nodes[n].wgIP : n \in {m \in Nodes : Registered(m)}}
Removing    == {th[s].ip : s \in {t \in Slots : th[t].pc \in DeleteSteps}}
Withdrawing == Removing \cup IF checker.pc = "callback" THEN {checker.ip} ELSE {}

\* BGP neighbours that belong to no node.
Ghosts == bgpPeers \ (Leased \cup Removing)

\* However removals, registrations and the checker overlap, one step alone
\* leaves a neighbour that belongs to no node: the goroutine of a registration
\* that adds it after the node was removed (registry.go:312).  No removal
\* overlooks one, whether or not the address was leased again before its two
\* deletions by address (registry.go:402, 407).
GhostsAreLateAdds ==
    [][\A ip \in Ghosts' \ Ghosts :
         \E s \in Slots : th[s].pc = "reg_bgp" /\ th'[s].pc = "up" /\ th[s].ip = ip]_vars

\* No step changes the key, the address or the sub-prefix of a node that
\* stays registered: heartbeats, timeouts and repeated registrations
\* (registry.go:255-260) leave the lease alone.
LeaseStable ==
    [][\A n \in Nodes :
         Registered(n) /\ Registered(n)' =>
            /\ nodes'[n].key = nodes[n].key
            /\ nodes'[n].wgIP = nodes[n].wgIP
            /\ nodes'[n].subnet = nodes[n].subnet]_vars

(***************************************************************************)
(* Safety when requests are calm.                                          *)
(***************************************************************************)

\* The registry keeps the promise of LeaseTable: an address or a sub-prefix
\* is leased to one registered node at a time, for as long as it stays
\* registered (registry.go:263-290, allocator.go:27-28).
Leases == INSTANCE LeaseTable
            WITH Addresses <- IPs, Prefixes <- SubnetIDs,
                 lease <- [n \in Nodes |-> [ip     |-> nodes[n].wgIP,
                                            subnet |-> nodes[n].subnet]]

RegistryLeases == Leases!LeaseSpec

\* The allocators record exactly what the registered nodes were told: the
\* address and the sub-prefix of a registered node are its own in the
\* allocators' books, so no later registration can be given them
\* (allocator.go:27-28 "tracks which are assigned to which node").
LeaseIsBooked ==
    \A n \in Nodes :
        Registered(n) => /\ assigned[n] = nodes[n].wgIP
                         /\ SubnetsOf(n) = {nodes[n].subnet}

\* The tunnel of a registered node whose peer could be configured carries
\* that node's address and sub-prefix, whatever peers failed removals and
\* restarts left on the interface (registry.go:295-306, 397).
TunnelLeadsToLessee ==
    \A n \in Nodes :
        Registered(n) /\ n \notin wgErr /\ ~ InFlight(n, RegisterSteps)
            => /\ nodes[n].key \in wgPeers
               /\ allowedIPs[nodes[n].key] = {Host(nodes[n].wgIP), Net(nodes[n].subnet)}

\* A node that was marked down has no BGP neighbour any more once the
\* checker's callback has run (types.go, NodeStateDown: "routes withdrawn").
DownMeansWithdrawn ==
    \A n \in Nodes :
        nodes[n].state = "down" /\ checker.node # n => nodes[n].wgIP \notin bgpPeers

\* A registered node whose address no removal and no checker is about to
\* withdraw keeps its BGP neighbour, and nobody begins to withdraw it but the
\* checker after its verdict on that same node: what may still hit a node from
\* before its registration - the removal of the address's former lessee, which
\* frees the address first and then deletes by address, twice (registry.go:394,
\* 402, 407), or the checker's callback for it (registry.go:163) - dies out and
\* does not come back.
NeighbourNotStolen ==
    [][\A n \in Nodes :
         Registered(n) /\ Registered(n)' /\ nodes[n].wgIP \notin Withdrawing =>
            /\ nodes[n].wgIP \in bgpPeers => nodes[n].wgIP \in bgpPeers'
            /\ nodes[n].wgIP \in Withdrawing' => checker'.node = n]_vars

(***************************************************************************)
(* Liveness under FairSpec.                                                *)
(***************************************************************************)

\* Every request that starts ends: no handler waits forever, on the error
\* path either (registry.go:271-277).
RequestsTerminate ==
    \A s \in Slots : th[s].pc # "idle" ~> th[s].pc = "idle"

\* A node that stays silent is eventually marked down, however busy the
\* registry's lock is (checker.go:36-37).
SilentNodeMarkedDown ==
    \A n \in Nodes :
        Registered(n) /\ ~ nodes[n].fresh
            ~> \/ nodes[n].state \in {"down", "absent"}
               \/ nodes[n].fresh

(***************************************************************************)
(* What documentation says and the code does not do: violated, in general. *)
(***************************************************************************)

\* registry.go:401, of the removal: "Remove BGP peer (triggers route
\* withdrawal)".  After it nothing of the node is left among the neighbours.
NoGhostNeighbour == Ghosts = {}


\* registry.go:308: the registration need not fail, the WireGuard peer "can
\* be re-added on next heartbeat".  Violated once the kernel refuses a peer; if
\* it refuses none, no removal and no neighbour's registration costs an active
\* node its peer.
HeartbeatRestoresTunnel ==
    \A n \in Nodes :
        nodes[n].state = "active" /\ ~ InFlight(n, RegisterSteps)
            => nodes[n].key \in wgPeers
=============================================================================
