# A TLA+ verification of router-ui

router-ui is a small SD-WAN: a *core* router announces one aggregate prefix to
its upstream ISPs, carves it into sub-prefixes, and hands one to each *edge
node*. A node reaches the core through WireGuard and announces its sub-prefix
over iBGP; the core's best-path watcher copies node routes into the kernel.
This directory models the parts of the program that keep state, checks them
with TLC on small instances, and proves the results that matter most with
TLAPS for instances of any size.

## 1. Inventory

| Component | Source | State | Operations | Interacts with |
|---|---|---|---|---|
| Sub-prefix allocator | `internal/subnet/allocator.go` | a table sub-prefix -> node | Allocate, AssignSpecific, Release, List, SubnetForNode; `carve` at start | called by the registry, own mutex |
| Tunnel-address allocator | `wgIPAllocator` in `internal/registry/registry.go` | FIFO pool, map node -> address | Allocate, Release; filled by `newWGIPAllocator` | called by the registry, own mutex |
| Node registry + HTTP API | `internal/registry/registry.go` | map node -> record, `mu` | register, heartbeat, delete, list, routes, status; MarkDown and RecordHeartbeat | allocators, WireGuard, BGP speaker, callbacks |
| Health checker | `internal/health/checker.go` | none between sweeps | a ticker-driven sweep | reads a snapshot of the registry, calls MarkDown |
| WireGuard manager | `internal/wireguard/manager.go` | the kernel interface: peers, allowed IPs | Setup, AddPeer, RemovePeer | called by registry and agent |
| BGP speaker | `internal/bgp/speaker.go` | neighbours, RIB (GoBGP), path ids, kernel routes | Start, AddPeer, RemovePeer, AnnounceRoute, WithdrawRoute, best-path watcher | called by registry, core and agent |
| BGP policies | `internal/bgp/policy.go` | import and export policies in GoBGP | Apply, AddUpstreamExportPolicy | called once by the core |
| Core process | `cmd/core/main.go` | wiring; nothing on disk | start-up order, signal handling | all of the above |
| Agent process | `cmd/agent/main.go` | its key, its registration | register with retry, tunnel, announce, heartbeat loop, withdraw | the core's HTTP API, WireGuard, BGP |
| Config, API types | `pkg/config`, `pkg/api` | none | load, validate | - |
| Web UI, CLI | `internal/webui`, `web`, `cmd/bgpctl` | none | read-only views, delete | the core's HTTP API |
| Protobuf, scripts, CI | `proto`, `scripts`, `.github` | none | - | - |

How the parts interact:

- **Calls.** The registry calls the allocators under `Registry.mu`, and the
  WireGuard manager and the BGP speaker without it. The health checker calls
  the registry through a two-method interface; `cmd/core` passes the registry
  callbacks that call the speaker again.
- **Messages.** Agents and `bgpctl` send HTTP requests; each runs in a
  goroutine of its own. Nodes and upstreams exchange BGP updates with GoBGP.
- **Events.** GoBGP queues best-path changes; one goroutine applies them to the
  kernel's routing table later.
- **Shared state.** `Registry.mu`, one mutex in each allocator, the kernel's
  WireGuard interface and routing table (which outlive the process), GoBGP.

What is hard to get right here, and what correctness means for each part:

| Part | Hard behaviour | What makes it correct |
|---|---|---|
| Allocators | idempotent allocation, exhaustion, operator assignments, FIFO reuse | a resource has one owner and changes hands only through Free; none is lost or duplicated |
| Registry | handlers unlock before they are done; a goroutine outlives the request; error paths under the lock | leases are exclusive and stable; the allocators' books and the records agree; nothing leaks; the lock is always released |
| Registry and BGP | neighbours are added by a goroutine nobody waits for and removed by address, twice, after the address was freed | every neighbour belongs to a registered node, and only its own removal or silence costs a node its neighbour (the code keeps neither, section 5); what goes wrong dies out |
| Registry and WireGuard | refused changes, peers left by an earlier process, changed keys | a configured tunnel carries its own node's prefixes, and only one peer has each prefix |
| Health checker | decides from a copy, acts later, needs the lock | a silent node is eventually marked down and its neighbour removed |
| Speaker | the kernel lags behind the best paths; refused routes; restarts | the kernel catches up; a removed node's routes leave it |
| Policies | assigned after the neighbours exist; failures are only logged | node routes never go upstream; only planned prefixes come in |
| Agent | lossy HTTP, retries, restarts of either side | a running agent is eventually registered and announces the prefix it was leased |

## 2. The modules

```
NodeIDs ── ResourcePool ─ ─ ─ ─ ─ (abstract: exclusive resources)
   │           ▲ implements
   ├── SubnetAllocator ──┬── AllocatorsMC ── Addressing
   ├── WGIPAllocator ────┤
   ├── WGDevice ─────────┴── Registry ── RegistryMC
   ├── LeaseTable ─ ─ ─ ─ ─ ─ ▲ │ implements (abstract: leases)
   └── Agent ───────────────────┴── Fleet ── FleetMC

Speaker                           (speaker.go, policy.go, start-up)

SubnetAllocatorProofs, WGIPAllocatorProofs ── RegistryProofs ── LeaseProofs ── FleetProofs
SpeakerProofs, AddressingProofs
```

`Registry` EXTENDS the allocators and `WGDevice` and uses their operations as
conjuncts of its actions, so a handler changes the allocators only through
their own code. `Fleet` EXTENDS `Registry` and `Agent` the same way: its steps
are steps of the registry and of a daemon, joined by the messages between them.

### Allocators

`SubnetAllocator` models `internal/subnet/allocator.go`: `subnets` is the slice
of sub-prefixes with their `NodeID`, numbered in the order of `carve`. `Allocate`
returns the node's own entry or takes the first free one; `AssignSpecific` lets
an operator take a named entry that is free or the node's own (a node may then
hold several); `Release` frees the first entry of the node. `WGIPAllocator`
models `wgIPAllocator`: `pool` is the FIFO queue, `assigned` the map. Each call
holds the allocator's mutex to its end, so each is one action. Both implement
`ResourcePool`. The address pool implements the stricter `PoolSpec`, where a
node owns at most one resource. The comment of `Allocate` (`allocator.go:61-62`)
announces an error for a node that has a sub-prefix already; the code returns
that sub-prefix (64-71), and so does the model.

### Addressing

Above, sub-prefixes and addresses are numbers in the order in which they were
made. `Addressing` says where they come from: `NewAllocator` with `carve`, and
`newWGIPAllocator` with `incrementIP`, as loops over numbers of `AddrBits` bits
whose arithmetic wraps around, as 32-bit arithmetic does in the code. The last
octet is the `OctetBits` lowest bits. `AllocatorsMC` puts the two halves
together: a behaviour builds an allocator, iteration by iteration, and then
calls it.

### Registry

`nodes` is `Registry.nodes` (state `"absent"` is a missing map key). `mu` is
the goroutine that keeps `Registry.mu` from one step to the next. A slot of
`th` is a goroutine: its `pc` names the next stretch of the handler and its
fields are the handler's local variables, which is what makes stale reads
possible. `checker` is the health checker's goroutine with the copy it works
on. `wgPeers` and `allowedIPs` (module `WGDevice`) are the kernel's interface,
where giving a prefix to one peer takes it from the others. `bgpPeers` is the
set of neighbour addresses in GoBGP, which refuses one it has already and, with
`BGPFaults`, may refuse any; the program only logs either. `wgErr` is a history
variable: the nodes whose WireGuard peer the kernel refused at registration.

| Handler | Actions, in order |
|---|---|
| `handleRegister` | `RegisterExisting`, or `RegisterNoIP`, or `RegisterAllocateIP` → (`RegisterInsert` → `RegisterAddWGPeer` → `RegisterAddBGPPeer` → `NodeUpCallback`) or (`RegisterNoSubnet` → `RegisterRollback`) |
| `handleHeartbeat`, `RecordHeartbeat` | `Heartbeat`, or `HeartbeatRecovery` → `NodeUpCallback` when the node was down |
| `handleDeleteNode` | `DeleteRecord` → `DeleteReleaseSubnet` → `DeleteReleaseIP` → `DeleteRemoveWGPeer` → `DeleteRemoveBGPPeer` → `DeleteNodeDownCallback` |
| `Checker.sweep`, `MarkDown` | `Sweep` → per node `MarkDown` → `MarkDownCallback` |

A step that waits for the lock has the guard `mu = None`. Between two steps of
the same handler everything else may happen. Time is reduced to `fresh`, the one
comparison the checker makes; `Lapse` makes a heartbeat too old. In `Registry` a
heartbeat may arrive at any time, as the handler accepts it from anyone with the
API key. The agent sends its own to the core's tunnel address (agent
`main.go:187`), so in `Fleet` they also need the tunnel. Public IP,
port, capabilities and response texts are left out: nothing that is checked
depends on them.

### Agent and Fleet

`Agent` has what one daemon (`cmd/agent/main.go`) keeps: how far `run()` has
come (`phase`), its key, the attempts that failed, and the lease it was told.
`Fleet` puts one daemon per node in front of `Registry` and models what lies
between. `call[n]` is the request the daemon waits for: on its way, in the hands
of a goroutine of the core, answered or refused. `late` has the requests whose
daemon gave up before the core read them. `rib` has the paths the core's GoBGP
holds and who announced them.

| `cmd/agent/main.go` | Actions |
|---|---|
| `main`, `run` up to the first request, systemd's restart | `StartAgent`, `RestartAgent` |
| `registerWithRetry`, `doRegister` | `SendRegistration` → (`ReceiveLease` or `ReceiveRefusal` or `CallTimesOut`), with `AttemptFailed` until `MaxAttempts` |
| the core's side of the request | `TakeCall`, `TakeLateCall`, `Accept`, `Refuse`, `Work` |
| `Setup`, `AddPeer`, `Speaker.Start`, `AddPeer` | `ConfigureAgent` |
| `waitForWGTunnel`, `AnnounceRoute` | `Announce` → `Advertise` when the session is up |
| `heartbeatLoop`, `sendHeartbeat` | `HeartbeatArrives`, `HeartbeatsStop` |
| an error, a kill; a signal and `WithdrawRoute` | `CrashAgent`; `StopAgent` |
| BGP's hold time | `HoldTimeOver` |

The tunnel is what joins the parts: heartbeats arrive, and a session is up, only
while the core's interface routes the daemon's tunnel address to the key of the
running daemon (`Tunnel`), and a session also needs the neighbour on the core
(`Linked`). The core never learns of a lost answer, and a daemon never learns
that it was removed. An agent's end of the tunnel follows from its phase.

### Speaker

`Speaker` models what GoBGP holds (`neighbours`, `sessions`, `accepted`,
`best`, `sent`) as its users see it, and the repository's own code around it:
the start-up order in `cmd/core` (`ApplyPolicies`, then `AddUpstream` and
`AssignExportPolicy` per upstream, then `AnnounceAggregate`, and only then the
HTTP API and with it the nodes; when the aggregate is refused, `run` returns the
error and the process ends, `AnnounceAggregateFails`), the two policies, and the
best-path watcher
(`WithdrawFromKernel`, `InstallInKernel`, `SkipTransit`) with its queue
`pending`. `sent` records what each upstream was sent in its session, which is
decided when it is sent: assigning a policy later takes nothing back.
`unsynced` is a history variable: the prefixes whose kernel route the program
has no reason to believe in, because the last change was refused or an earlier
process made it.

Assumptions about GoBGP, which is not part of this repository, taken from the
way the code uses it: an empty table filter watches all best paths
(`speaker.go:274`), a deleted neighbour's paths disappear (`speaker.go:145`),
events are neither lost nor reordered for one prefix. Two things are left open:
the best-path ranking, and whether the global import policy also filters the
aggregate the core originates itself. `policy.go:161-162` says that only node
subnets enter the RIB; if GoBGP applied that to local paths, no upstream would
hear the aggregate, so `AnnounceAggregate` allows both. Agents run the same
speaker with `WGInterface: ""`, so their watcher does nothing.

### Abstract specifications

- `ResourcePool`: exclusive resources, implemented by both allocators.
- `LeaseTable`: a node is granted an address and a sub-prefix that nobody
  holds, and keeps both until it is removed or the core restarts. The registry
  implements it when requests are calm (below).
- `Registry` itself is the abstract specification of `Fleet`: with the daemons
  and the network taken away, what remains is a behaviour of the registry.

## 3. What is checked

| Run | Instance | Question |
|---|---|---|
| `allocators` | 3 nodes, 4 sub-prefixes, 4 addresses; 6-bit addresses with 2-bit octets, every network, length and core address | is the aggregate partitioned, is the pool the range, do both loops come nearer their end with every step and reach it? does each allocator then implement its pool, operator assignments included? |
| `registry_calm` | 3 nodes, 2 addresses, 3 sub-prefixes, 2 goroutines | exclusive stable leases; books agree with records; down nodes are withdrawn; what a removal does to the next lessee's neighbour ends with the removal; an active node has its WireGuard peer if the kernel refuses none |
| `registry_races` | 2 nodes, 3 keys, 2 addresses, 1 sub-prefix, any overlap, refused neighbours, restarts | what survives every interleaving? is a registration refused only when the pools are really in use? where can a neighbour without a node come from? |
| `registry_live` | 2 nodes, 2 addresses, 1 sub-prefix, fair | do requests end, are silent nodes marked down? |
| `speaker` | 2 nodes, 2 upstreams, 1 sub-prefix, 1 foreign prefix, 2 events per prefix, refused routes, restarts, a fair watcher | does the kernel follow and have no route nobody offers, do the policies hold? |
| `fleet` | 2 daemons, 3 keys, 2 addresses, 1 sub-prefix, 2 goroutines, 1 attempt per process, 2 disturbances, every fault | do daemons, tunnels and paths agree with the leases? |
| `fleet_live` | 2 daemons, 2 sub-prefixes, configured keys, 2 attempts, 2 disturbances (lost calls, crashes, signals), fair | does a started daemon end up announcing its prefix? |
| `registry_overlap`, `registry_ghost`, `registry_stolen`, `speaker_leak`, `fleet_recovery` | as small as the counterexample allows | five statements of the documentation the code does not keep (section 5) |

**Bounds.** Every hazard of the registry needs two nodes (two users of one
resource) and two goroutines (one that was overtaken); the third node in
`registry_calm` competes for an address that was just freed while another is
still in use. The registry's runs have one pool smaller than the number of
nodes, so that it runs empty: the addresses in `registry_calm`, the
sub-prefixes in `registry_races`, `registry_live` and `fleet`, where the
rollback path runs. (In `allocators` the sub-prefixes run out through operator
assignments; the addresses do not, and the registry's runs see to that.) Two
keys for one node are enough for a node that comes back with another key. In
`Speaker` one sub-prefix with three or four candidates for its best path is
enough, because the watcher treats prefixes separately; `MaxPending` is 2 so
that a change can overtake an event that is still waiting.

In `Fleet`, `MaxDisturbances` bounds the lost calls, crashes, signals, outages,
removals and core restarts of a behaviour; two are enough for "the lease changes
hands, the old holder's daemon lives on, and one more thing goes wrong". Refused
WireGuard changes and neighbours come on top.
`fleet` has one attempt per process, since a second attempt from the same process
reaches the core exactly as one from the next process with the same key does;
`fleet_live` has two, so that the loop runs and gives up. `allocators` takes
every network of a 6-bit space, with all positions relative to octets and to
the end of the space; the code's 32 and 8 bits differ only in size.
The theorems of section 4 remove the bounds for the properties they state.
Symmetry (goroutines, and nodes with their keys) is used in safety runs only.
`allocators` and `speaker_leak` do not check for deadlock: a function may return
an error, and a refused start ends the process.

**Calm requests.** With `RequestsOverlap = FALSE` (`RegisterAllowed`,
`DeleteAllowed`, `LapseAllowed`) the requests about *one node* follow each other:
a node is not removed before the goroutine of its own registration is through,
it does not register again before its own removal, and a sweep that was about to
mark it, are through, and its registration takes less than the heartbeat timeout
of 90 s. Requests about different nodes overlap as they like, and so do the
checker, heartbeats and removals: another node may be given an address the
moment line 394 frees it, while its former lessee's removal has yet to delete
the neighbour with that address. Nothing in the program enforces calm requests;
one operator who removes nodes by hand, and agents that register once when they
start, usually behave so. In `Fleet` the assumption has one more part: a request
the daemon has given up may still be on its way, and an operator does not remove
the node before it has arrived or is lost (`RemoveNode`); section 5 says what it
would do. `registry_races` drops the assumption and keeps what is still true;
`registry_overlap` and `registry_ghost` show what is not. `registry_stolen` has
calm requests, and shows what they do not prevent.

**Fairness.** `FairSpec` of `Registry` says that Go schedules every runnable
goroutine (WF on the steps of a started handler), that the ticker goes on, and
that `sync.RWMutex` does not starve a waiter (SF on `Sweep` and `MarkDown`,
which are disabled whenever a handler has the lock). Arrivals, heartbeats,
lapses and restarts have no fairness. `FairSpec` of `Speaker` says only that the
watcher's goroutine keeps reading. The start-up, the peers and the operator are
under no obligation. `FleetFairness` says that daemons and goroutines that can
go on do, that the service manager starts a failed daemon again
(`Restart=on-failure`, the repository's `README.md:157`), and that a request at
the core finds the lock and a goroutine free if they are free again and again
(SF on `TakeCall`). The same goes for heartbeats (SF on `HeartbeatArrives`): the
daemon's ticker never stops while the daemon runs (agent `main.go:283-297`), and
without a tunnel none arrives. The checker keeps sweeping. Faults, signals,
removals, outages and the first start of a daemon are not obliged to happen, and
`MaxDisturbances` says that they stop.

## 4. What is proved

All theorems hold for every set of nodes, keys, goroutines, upstreams and
prefixes, every pool size and every number of attempts and disturbances, under
the named assumptions on constants in the modules (distinctness of names, at
least one event in the queue, flags are Booleans, an address has at least one
octet). Theorems that need more say so: "calm requests" is
`RequestsOverlap = FALSE`, explained in section 3, which restrains requests
about one node only; and only
`RefusalsAreAlwaysJustified` needs finitely many nodes.

| Theorem | States | Argument |
|---|---|---|
| `SubnetTypeCorrect`, `SubnetAllocatorImplementsPool` | `SubnetTypeOK`, `SubnetsAreAPool` | step by step: each call is a pool step or changes nothing |
| `WGIPTypeCorrect`, `AddressesAreConserved`, `WGIPAllocatorImplementsPool` | `WGIPTypeOK`, `AddressesConserved`, `WGIPsAreAPool` | `WGIPInv`: the queue has no duplicates, pooled and assigned are disjoint, no two nodes share an address, and no address is missing. The four parts need each other: without "no duplicates" an allocation could leave a second copy of the address in the queue |
| `AddressingTypeCorrect`, `CarvePartitions`, `PoolOffersTheRange` | `AddrTypeOK`, `AggregateIsPartitioned`, `PoolIsTheRange` | `CarveInv` and `ScanInv`, for addresses of every width, the 32 bits of the code included |
| `LoopsAlwaysShrink` | `LoopsShrink` | the safety half of `LoopsEnd`: each iteration lowers a natural number |
| `RegistryTypeCorrect`, `LockIsOwned`, `RegistrationsExclude`, `RegistryConservesAddresses` | `TypeOK`, `CriticalSectionOwnsLock`, `AddressesConserved` | `RegistryInv`, with no assumption on how requests overlap |
| `BooksInOrder`, `NothingLeaks`, `LeasesAreStable` | `NoLeakedAddresses`, `LeaseStable` | `BookInv`, with no assumption on how requests overlap |
| `RefusalsAreAlwaysJustified` | `RefusalsAreJustified` | a pigeonhole count over `BookInv`; any overlap, finitely many nodes |
| `GhostsComeFromLateAdds` | `GhostsAreLateAdds` | `BookInv`: a record's address, once the record is gone, is in a removal's hands until its last deletion by address; any overlap |
| `LeasesAreBooked`, `RegistryImplementsLeases` | `LeaseIsBooked`, `RegistryLeases` | `CalmInv`; calm requests |
| `PeersFollowTheRecords`, `DownNodesAreWithdrawn`, `TunnelsLeadToLessees` | `DownMeansWithdrawn`, `TunnelLeadsToLessee` | `PeerInv`; calm requests |
| `NeighboursAreNotStolen` | `NeighbourNotStolen` | leases are exclusive (`CalmInv`), so only the node's own removal or verdict can begin a withdrawal of its address; calm requests, while other nodes register during any removal |
| `NeighboursAreLeased` | every neighbour is a registered node's or its removal's | `NeighbourInv`; calm requests |
| `OnlyTheKernelCostsATunnel` | `HeartbeatRestoresTunnel` | `PeerInv`; calm requests, and the kernel refuses nothing (`~ NetlinkFaults`) |
| `FleetTypeCorrect`, `FleetInvariant`, `FleetRefinesRegistry` | `FleetTypeOK` | `FleetInv`: every step of the fleet is a step of the registry or leaves it alone |
| `FleetTunnelsLeadToLessees` | `TunnelLeadsToLessee` | the refinement carries the registry's theorem over; calm requests |
| `FleetImplementsLeases` | `RegistryLeases` | the two refinements, one after the other; calm requests |
| `AgentsKnowTheirLeases` | `AgentKnowsItsLease` | `LeaseInv`; calm requests |
| `RoutesAreAlwaysTheLessees` | `RoutesAreTheLessees` | `PeerInv` and `NeighbourInv` through the refinement, `LeaseInv` and `RibHasNeighbours`; calm requests |
| `SpeakerTypeCorrect` | `SpeakerTypeOK` | inductive as it stands |
| `KernelFollowsBestPaths` | `FIBFollowsRIB` | `KernelCatchesUp`: the newest event waiting for a prefix is its best path; when none waits, the kernel agrees. The property itself speaks of an empty queue only and says nothing of the step that empties it |
| `OnlyFaultsLeaveTheKernelBehind` | `FIBFollowsRIB` without its exceptions | `KernelCatchesUp` and `InStepInv`; the kernel refuses nothing and the core does not restart |
| `KernelRoutesAreAlwaysOffered` | `KernelRoutesAreOffered` | `KernelCatchesUp` and `BestIsOffered` |
| `KernelGetsPlannedRoutes` | `OnlyPlannedRoutes` | `StartUpOrder` (no neighbour before the import policy, no node before `serving`) and `OnlyPlannedPaths` |
| `NodeRoutesStayWithTheCore` | `NodeRoutesStayInside` | the same, and `UpstreamsFiltered`: an upstream that is a neighbour has its export policy or is still on the list, and the list is empty before the first node. Assumes `~ BGPFaults`, and section 5 shows it must |

The inductive invariants build on one another, each with the parts its property
does not mention:

- `RegistryInv` is `TypeOK`, `CriticalSectionOwnsLock`, `AddressesConserved` and
  `ThreadsEquipped`: a goroutine in the middle of a handler carries the node,
  key, address and sub-prefix its remaining steps use. Without the last, a
  rollback could release the address of nobody.
- `BookInv` relates records, books and goroutines in every interleaving: a
  record is complete, a goroutine before the insertion works for a node without
  a record, a node has at most one sub-prefix, and what is booked to a node is
  held by its record or by a goroutine that will insert or release it. Nothing
  leaks because of the last two. A record changes only where `BookInv` shows it
  is new, which is why leases are stable.
- `CalmInv` adds what calm requests bring: a node that is being removed has no
  record and no registration, a registration agrees with the books before its
  insertion and with the record after it, there is one registration per node,
  and then `LeaseIsBooked`. The refinement of `LeaseTable` follows step by step.
- `PeerInv` adds two groups. For health: the checker's verdict stands until it
  has withdrawn the neighbour, and a registration still under way is not marked
  down. For tunnels: one peer per prefix, and the peer of a record has the
  record's prefixes unless the kernel refused it.
- `GhostsAreLateAdds` needs `BookInv` only. A neighbour becomes a ghost when the
  last record or removal that has its address goes; a removal keeps the address
  until it has deleted the neighbour, twice, so what is left is the goroutine
  that adds one late. With calm requests that goroutine's node is registered,
  which turns the step into `NeighbourInv`: there is no ghost at all. The other
  half of `NeighbourInv` is that a node whose neighbour is about to be added has
  none yet, except one a removal is about to take away.
- `RefusalsAreJustified` follows from `BookInv` by counting: an empty pool means
  that every address is assigned, to different nodes, each of which has a record
  or is in the hands of a goroutine. So the nodes are at least as many as the
  addresses.
- `LeaseInv` is `AgentKnowsItsLease` with the same statement for answers under
  way and for registrations after their insertion; before the insertion the
  node's daemon has been told nothing, and a late request of a daemon that was
  told finds the node's record.
- `RoutesAreTheLessees` is not inductive. The paths in `rib` have neighbours
  (`RibHasNeighbours`), a neighbour belongs to one lessee or to a removal
  (`NeighbourInv`), and a path that is new has come through a tunnel, which
  leads to the lessee.

Two components stand alone:

- In `Speaker`, `KernelCatchesUp` says what the newest waiting event of a prefix
  is. `BestIsOffered` adds that a best path is one that a neighbour offers, so
  that a kernel route in step is offered too. `InStepInv` shows why faults are
  the only exceptions: the core originates nothing but the aggregate, and its
  own path is the only one with a gateway the kernel must refuse.
- In `Addressing`, `CarveInv` lays the sub-prefixes made so far side by side
  from the base; `ScanInv` has the usable addresses behind the scan in the pool,
  once and in order. That the sub-prefixes fill the aggregate exactly is a fact
  about powers of two, and `Pow2` is a recursive function: its properties come
  from an induction over sets of exponents (`SetInduction`).

Three of the five disagreements of section 5 have a theorem that says what the
documented promise takes, in place of the general case the run refutes:

| Run | Promise | Holds if | Theorem |
|---|---|---|---|
| `registry_overlap` | `LeaseIsBooked` | requests are calm | `LeasesAreBooked` |
| `registry_ghost` | `NoGhostNeighbour` | requests are calm | `NeighboursAreLeased` |
| `speaker_leak` | `NodeRoutesStayInside` | GoBGP accepts the policies | `NodeRoutesStayWithTheCore` |

For `registry_stolen` calm requests are not enough: `NeighboursAreNotStolen` says
what is left, that the theft is over when the former lessee's removal is. For
`fleet_recovery` the promise is liveness, and what it takes are two changes of the
code, each of which TLC finds insufficient alone on the same instance: an
`OnNodeUp` that adds the neighbour again, and a `MarkDown` whose callback a
recovering heartbeat cannot overtake (`registry.go:159-163`), or the neighbour is
first restored and then removed.

Only model-checked: liveness (`RequestsTerminate`, `SilentNodeMarkedDown`,
`RemovedNodeLeavesKernel`, `RouteComesBack`, `LoopsEnd`), since the prover has
neither fairness nor `ENABLED`. What a proof can say of them is the safety half:
`LoopsShrink` and `KernelRoutesAreOffered`.

## 5. Where code and documentation disagree

Each is a run whose property is what the documentation says and whose
counterexample is what the code does.

1. `registry_overlap`: `handleDeleteNode` releases by node id after it has
   unlocked. A registration in between is given the same lease back, and then
   loses it in the books: the next node is leased the same sub-prefix.
2. `registry_ghost`: `registry.go:401` has the removal trigger the withdrawal of
   the node's routes, and the repository's `README.md:112` calls it "drain &
   de-register". The neighbour is added by a goroutine that `handleRegister`
   leaves behind (312); when a removal overtakes it, the neighbour is added after
   both deletions, and belongs to nobody.
3. `registry_stolen`: `registry.go:39` says that `OnNodeDown`, which removes the
   neighbour, is called when a node is de-registered or times out. A removal
   frees the address at 394 and deletes the neighbour by address at 402 and 407.
   A node that registers in between gets the address and a neighbour, and loses
   it, although it was neither removed nor silent.
4. `speaker_leak`: `policy.go:15` says node routes never leak upstream.
   `cmd/core` only logs when the export policy is refused, and the upstream,
   already a neighbour, then receives them.
5. `fleet_recovery`: `checker.go:11-13` says a heartbeat after being down
   restores the BGP peer, and the repository's `README.md:128` that routes are
   restored when the agent registers again. The `OnNodeUp` of `cmd/core` only
   logs and a known node's registration has no effect, so after one outage of
   the heartbeats a node is active again without a neighbour, and its route
   stays away however long heartbeats go on arriving. (An `OnNodeUp` that only
   added the neighbour would not do: section 4.)

Further behaviour that the models show, and that properties state as an
exception or a run excludes by a constant:

- `README.md:127` has the ISP stop routing when a node fails. The aggregate, the
  only prefix an upstream is to hear, is announced once at start-up and never
  withdrawn: the ISP goes on sending the node's traffic to the core.
- `registry.go:308` relies on the next heartbeat to add a WireGuard peer the
  kernel refused. No handler of a heartbeat touches WireGuard, and the agent's
  own heartbeats need the very tunnel that is missing. `registry_calm` has no
  refusals, and `TunnelLeadsToLessee` excepts them (`wgErr`).
- A registration whose daemon gave up may reach the core after the operator
  removed the node: the node is then registered again, maybe with another lease
  than a daemon was told, until it is removed once more (the guard of
  `RemoveNode` in `Fleet`).
- `MarkDown` does not look at the heartbeat again: one that arrives between the
  checker's copy and `MarkDown` does not save the node.
- After the core restarts, agents' heartbeats are answered 404, which they only
  log; none registers again until it is restarted (`CoreRestarts` is `FALSE` in
  `fleet_live`).
- Without a configured key each start of an agent makes a new one, and the core
  answers from the record with the old one; such a node has no tunnel
  (`KeysPersist` in `fleet_live`).
- An agent whose BGP speaker ends exits with status 0, which
  `Restart=on-failure` does not restart (`StopAgent`).
- When the kernel refuses a WireGuard peer after a core restart, the address
  still leads to its former holder, and the registration opens a BGP session
  there (the last case of `RoutesAreTheLessees`).
- When the best path of a sub-prefix moves to an upstream, the node's kernel
  route stays (`SkipTransit`), and kernel routes of an earlier process stay
  until their prefix changes (`unsynced` in `RestartCore`).
- `newWGIPAllocator` judges network and broadcast addresses by the last octet:
  it skips usable addresses of a range larger than /24, and does not skip the
  ends of a smaller one. For the whole address space its loop would not end
  (`AddrInit` leaves that range out).

## 6. What is not modelled, and the plan

Not modelled:

- Configuration, the web page, `bgpctl`, the read-only handlers, logging and
  TLS: they keep no state and change none.
- The path ids of `AnnounceRoute` and `WithdrawRoute`: one goroutine of a
  process calls either, once each.
- WireGuard's handshake, interface addresses and MTU. An agent that gets another
  address after a core restart also keeps the old one on its interface.
- GoBGP's own protocol and path selection (left open in `Speaker`).
- The graceful shutdown of the core, a restart as far as the others can tell.

Done: allocators and `Addressing`, `WGDevice`, `Registry` with the checker,
`Speaker`, `Agent` and `Fleet`; `ResourcePool` and `LeaseTable`; the theorems of
section 4. Worth doing next, in this order:

1. `Core`: `Registry` and `Speaker` over one neighbour set, to carry
   `RoutesAreTheLessees` from the paths in GoBGP on to the kernel's routes.
   `Fleet` and `Speaker` meet at the neighbour set, but their product is too
   large for TLC as they are: it needs a watcher abstracted to
   `KernelCatchesUp` and `KernelRoutesAreOffered`, which are proved.
2. An abstract mirror of the best paths that lags behind but never goes back,
   and the proof that the watcher implements it.
3. Liveness of the fleet with the core's restarts, should the agents learn to
   register again.

To repeat a run: `tlc -config <cfg> <module>`; to repeat the proofs:
`tlapm <module>Proofs.tla`. `PROJECT.json` lists runs, mutants of the code that
each property detects, and the source lines behind every definition.
