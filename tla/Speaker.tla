------------------------------ MODULE Speaker ------------------------------
(***************************************************************************)
(* The core's BGP side: the embedded speaker (internal/bgp/speaker.go),    *)
(* its route policies (internal/bgp/policy.go) and the order in which      *)
(* cmd/core/main.go brings them up.                                        *)
(*                                                                         *)
(* GoBGP itself is a library: it keeps the neighbours, the accepted paths, *)
(* the best path of every prefix, and what it has sent to the upstreams.   *)
(* How it ranks paths is left open, except that a best path stays best     *)
(* until it is gone or a new path arrives.  The repository's own code is   *)
(* the start-up sequence, the policies, and the watcher that copies best   *)
(* paths into the kernel long after GoBGP has chosen them.                 *)
(*                                                                         *)
(* A path is named by the peer it was learned from, which decides its next *)
(* hop: a node announces its own tunnel address, an upstream an address    *)
(* outside the tunnel range, the core itself its own tunnel address.       *)
(***************************************************************************)
EXTENDS Naturals, Sequences

CONSTANTS
    NodePeers,          \* tunnel addresses of the nodes, as BGP neighbours
    Upstreams,          \* the ISPs' routers
    SubPrefixes,        \* the aggregate's sub-prefixes ("node-subnets")
    Foreign,            \* prefixes outside the plan, such as a default route
    Aggregate,          \* the prefix the core announces
    Self,               \* the core as the origin of a path
    None,
    MaxPending,         \* bound: best-path changes waiting, per prefix
    BGPFaults,          \* may GoBGP refuse a start-up call that is only logged?
    KernelFaults,       \* may the kernel refuse a route change?
    CoreRestarts        \* may the core process restart?

Peers    == NodePeers \cup Upstreams
Prefixes == SubPrefixes \cup Foreign \cup {Aggregate}
Origins  == Peers \cup {Self, None}

ASSUME PeersAreApart  == /\ NodePeers \cap Upstreams = {}
                         /\ {Self, None} \cap Peers = {}
                         /\ Self # None
ASSUME PrefixesAreApart == /\ Aggregate \notin SubPrefixes \cup Foreign
                           /\ SubPrefixes \cap Foreign = {}
ASSUME MaxPendingIsNat == MaxPending \in Nat \ {0}
ASSUME SpeakerFlags    == {BGPFaults, KernelFaults, CoreRestarts} \subseteq BOOLEAN

VARIABLES
    \* the core's start-up
    phase,              \* where cmd/core's run() is
    todo,               \* upstreams it has not configured yet
    adding,             \* the upstream between its AddPeer and its policy
    \* GoBGP
    started,            \* StartBgp has returned
    importFilter,       \* the global import policy is assigned
    exportFilter,       \* upstreams with the aggregate-only export policy
    neighbours,         \* configured neighbours
    sessions,           \* those with an established session
    accepted,           \* accepted[q]: prefixes with an accepted path from q
    best,               \* best[p]: where the best path of p comes from
    sent,               \* sent[u][p]: the path of p the upstream u was sent
    \* the watcher and the kernel
    pending,            \* pending[p]: best paths of p the watcher has not seen
    fib,                \* fib[p]: the gateway of the kernel's route to p
    unsynced            \* prefixes whose last kernel change failed, or whose
                        \* route an earlier process left (no code keeps this)

startVars == <<phase, todo, adding>>
confVars  == <<started, importFilter, exportFilter>>
peerVars  == <<neighbours, sessions>>
ribVars   == <<accepted, best, pending>>
kernVars  == <<fib, unsynced>>

vars == <<startVars, confVars, peerVars, ribVars, sent, kernVars>>

Phases == {"policies", "upstreams", "serving", "stopped"}

\* The next hops that WGPeerRange contains.  The core's own address is one.
InWGRange == NodePeers \cup {Self}

SpeakerTypeOK ==
    /\ phase \in Phases
    /\ todo \in SUBSET Upstreams
    /\ adding \in Upstreams \cup {None}
    /\ started \in BOOLEAN
    /\ importFilter \in BOOLEAN
    /\ exportFilter \in SUBSET Upstreams
    /\ neighbours \in SUBSET Peers
    /\ sessions \in SUBSET neighbours
    /\ accepted \in [Peers -> SUBSET Prefixes]
    /\ best \in [Prefixes -> Origins]
    /\ sent \in [Upstreams -> [Prefixes -> Origins]]
    /\ pending \in [Prefixes -> Seq(Origins)]
    /\ fib \in [Prefixes -> InWGRange \cup {None}]
    /\ unsynced \in SUBSET Prefixes

NothingSent == [p \in Prefixes |-> None]

Init ==
    /\ phase = "policies"
    /\ todo = Upstreams
    /\ adding = None
    /\ started = FALSE
    /\ importFilter = FALSE
    /\ exportFilter = {}
    /\ neighbours = {}
    /\ sessions = {}
    /\ accepted = [q \in Peers |-> {}]
    /\ best = [p \in Prefixes |-> None]
    /\ sent = [u \in Upstreams |-> NothingSent]
    /\ pending = [p \in Prefixes |-> <<>>]
    /\ fib = [p \in Prefixes |-> None]
    /\ unsynced = {}

-----------------------------------------------------------------------------
(***************************************************************************)
(* GoBGP's reaction to a change of the paths it has.                       *)
(***************************************************************************)

\* The paths of p in a table; None when there is none.
Choices(table, origins, p) ==
    LET paths == {q \in Peers : p \in table[q]} \cup origins
    IN  IF paths = {} THEN {None} ELSE paths

OwnPaths(p) == IF best[p] = Self THEN {Self} ELSE {}

\* b is a best path of p once the table is `table`: the old one while it is
\* there and nothing new has come.
MayBeBest(b, table, origins, p) ==
    LET now == Choices(table, origins, p)
    IN  /\ b \in now
        /\ best[p] \in now =>
              b \in {best[p]} \cup (now \ Choices(accepted, OwnPaths(p), p))

\* What GoBGP tells upstream u of a prefix whose best path is b.
Export(u, p, b) ==
    IF b = u \/ (u \in exportFilter /\ p # Aggregate) THEN None ELSE b

\* The best paths of the prefixes in P become those in b: the watcher gets an
\* event for each change, the upstreams with a session an update.
SwitchBest(P, b) ==
    LET changed == {p \in P : b[p] # best[p]}
    IN  /\ \A p \in changed : Len(pending[p]) < MaxPending
        /\ best' = [p \in Prefixes |-> IF p \in changed THEN b[p] ELSE best[p]]
        /\ pending' = [p \in Prefixes |-> IF p \in changed
                                             THEN Append(pending[p], b[p])
                                             ELSE pending[p]]
        /\ sent' = [u \in Upstreams |->
                      IF u \in sessions THEN [p \in Prefixes |->
                                          IF p \in changed THEN Export(u, p, b[p])
                                                           ELSE sent[u][p]]
                                  ELSE NothingSent]

\* Neighbour q now has the accepted paths `new`.
UpdatePaths(q, new) ==
    LET table    == [accepted EXCEPT ![q] = new]
        affected == (accepted[q] \ new) \cup (new \ accepted[q])
    IN  /\ accepted' = table
        /\ \E b \in [affected -> Origins] :
              /\ \A p \in affected : MayBeBest(b[p], table, OwnPaths(p), p)
              /\ SwitchBest(affected, b)

-----------------------------------------------------------------------------
(***************************************************************************)
(* Faulty variants for the mutants.                                        *)
(***************************************************************************)

\* The start-up loop adds an upstream but assigns it no export policy.
AssignExportPolicyForgotten(u) ==
    /\ phase = "upstreams"
    /\ adding = u
    /\ todo' = todo \ {u}
    /\ adding' = None
    /\ UNCHANGED <<phase, confVars, peerVars, ribVars, sent, kernVars>>

\* Apply returns without assigning the import policy.
ApplyPoliciesWithoutImport ==
    /\ phase = "policies"
    /\ started
    /\ phase' = "upstreams"
    /\ UNCHANGED <<todo, adding, confVars, peerVars, ribVars, sent, kernVars>>

-----------------------------------------------------------------------------
(***************************************************************************)
(* Start-up: run() of cmd/core, and Speaker.Start in its goroutine.        *)
(***************************************************************************)
StartBGP ==
    /\ ~ started
    /\ phase # "stopped"
    /\ started' = TRUE
    /\ UNCHANGED <<startVars, importFilter, exportFilter, peerVars, ribVars, sent, kernVars>>

\* run() sleeps 200 ms and hopes that StartBgp has returned; when it has not,
\* Apply fails and so does the process.
ApplyPolicies ==
    /\ phase = "policies"
    /\ phase' = IF started THEN "upstreams" ELSE "stopped"
    /\ importFilter' = started
    /\ UNCHANGED <<todo, adding, started, exportFilter, peerVars, ribVars, sent, kernVars>>

\* Speaker.AddPeer for an upstream; a failure is only logged.
AddUpstream(u) ==
    /\ phase = "upstreams"
    /\ adding = None
    /\ u \in todo
    /\ adding' = u
    /\ \/ neighbours' = neighbours \cup {u}
       \/ BGPFaults /\ UNCHANGED neighbours
    /\ UNCHANGED <<phase, todo, confVars, sessions, ribVars, sent, kernVars>>

\* AddUpstreamExportPolicy; GoBGP refuses a policy for a neighbour it does not
\* have, and a failure is only logged.
AssignExportPolicy(u) ==
    /\ phase = "upstreams"
    /\ adding = u
    /\ \/ u \in neighbours /\ exportFilter' = exportFilter \cup {u}
       \/ (BGPFaults \/ u \notin neighbours) /\ UNCHANGED exportFilter
    /\ todo' = todo \ {u}
    /\ adding' = None
    /\ UNCHANGED <<phase, started, importFilter, peerVars, ribVars, sent, kernVars>>

\* The process ends, and what it had in memory with it.  The kernel's routes
\* survive, and nothing at start-up looks for them.
LoseMemory(next) ==
    /\ phase' = next
    /\ todo' = Upstreams
    /\ adding' = None
    /\ started' = FALSE
    /\ importFilter' = FALSE
    /\ exportFilter' = {}
    /\ neighbours' = {}
    /\ sessions' = {}
    /\ accepted' = [q \in Peers |-> {}]
    /\ best' = [p \in Prefixes |-> None]
    /\ sent' = [u \in Upstreams |-> NothingSent]
    /\ pending' = [p \in Prefixes |-> <<>>]
    /\ unsynced' = unsynced \cup {p \in Prefixes : fib[p] # None}
    /\ UNCHANGED fib

\* AnnounceRoute(aggregate), after which run() starts the HTTP API.  When
\* GoBGP takes the path, it may still apply the import policy to it, which
\* lets no aggregate through: whether it does is left open.
AnnounceAggregate ==
    /\ phase = "upstreams"
    /\ todo = {}
    /\ phase' = "serving"
    /\ SwitchBest({Aggregate}, [p \in {Aggregate} |-> Self]) \/ UNCHANGED <<best, pending, sent>>
    /\ UNCHANGED <<todo, adding, confVars, peerVars, accepted, kernVars>>

\* When GoBGP refuses it, run() returns the error and the process ends.
AnnounceAggregateFails ==
    /\ phase = "upstreams"
    /\ todo = {}
    /\ LoseMemory("stopped")

-----------------------------------------------------------------------------
(***************************************************************************)
(* Node neighbours: Speaker.AddPeer and RemovePeer as the registry calls   *)
(* them.  DeletePeer drops the neighbour's paths.                          *)
(***************************************************************************)
AddPeer(n) ==
    /\ phase = "serving"
    /\ n \notin neighbours
    /\ neighbours' = neighbours \cup {n}
    /\ UNCHANGED <<startVars, confVars, sessions, ribVars, sent, kernVars>>

RemovePeer(n) ==
    /\ phase = "serving"
    /\ n \in neighbours
    /\ neighbours' = neighbours \ {n}
    /\ sessions' = sessions \ {n}
    /\ UpdatePaths(n, {})
    /\ UNCHANGED <<startVars, confVars, kernVars>>

-----------------------------------------------------------------------------
(***************************************************************************)
(* The neighbours' side.                                                   *)
(***************************************************************************)

\* A session comes up; an upstream is sent the whole table.
SessionUp(q) ==
    /\ q \in neighbours \ sessions
    /\ sessions' = sessions \cup {q}
    /\ sent' = [u \in Upstreams |->
                  IF u = q THEN [p \in Prefixes |-> Export(u, p, best[p])] ELSE sent[u]]
    /\ UNCHANGED <<startVars, confVars, neighbours, ribVars, kernVars>>

\* A session is lost; graceful restart keeps the paths for a while.
SessionDown(q) ==
    /\ q \in sessions
    /\ sessions' = sessions \ {q}
    /\ sent' = [u \in Upstreams |-> IF u = q THEN NothingSent ELSE sent[u]]
    /\ UNCHANGED <<startVars, confVars, neighbours, ribVars, kernVars>>

\* They expire (or were not kept).
FlushPaths(q) ==
    /\ q \in neighbours \ sessions
    /\ accepted[q] # {}
    /\ UpdatePaths(q, {})
    /\ UNCHANGED <<startVars, confVars, peerVars, kernVars>>

\* q announces p; the import policy decides.
Announce(q, p) ==
    /\ q \in sessions
    /\ importFilter => p \in SubPrefixes
    /\ p \notin accepted[q]
    /\ UpdatePaths(q, accepted[q] \cup {p})
    /\ UNCHANGED <<startVars, confVars, peerVars, kernVars>>

Withdraw(q, p) ==
    /\ q \in sessions
    /\ p \in accepted[q]
    /\ UpdatePaths(q, accepted[q] \ {p})
    /\ UNCHANGED <<startVars, confVars, peerVars, kernVars>>

-----------------------------------------------------------------------------
(***************************************************************************)
(* The watcher: handleBestPath on the oldest event of p.  Events of        *)
(* different prefixes do not interact, so their order is not kept.         *)
(***************************************************************************)
Dequeue(p) ==
    /\ pending[p] # <<>>
    /\ pending' = [pending EXCEPT ![p] = Tail(@)]
    /\ UNCHANGED <<startVars, confVars, peerVars, accepted, best, sent>>

\* The kernel takes the change, or it does not and that is all the log says.
\* It may always refuse the core's own address as a gateway.
KernelRoute(p, gw) ==
    \/ /\ fib' = [fib EXCEPT ![p] = gw]
       /\ unsynced' = unsynced \ {p}
    \/ /\ KernelFaults \/ gw = Self
       /\ unsynced' = unsynced \cup {p}
       /\ UNCHANGED fib

\* Faulty variants for the mutants: handleBestPath ignores IsWithdraw; it does
\* not look at WGPeerRange; it uses RouteAdd for RouteReplace and takes "file
\* exists" for success.
WithdrawFromKernelSkipped(p) ==
    /\ Dequeue(p)
    /\ Head(pending[p]) = None
    /\ UNCHANGED kernVars

InstallAnyNextHop(p) ==
    /\ Dequeue(p)
    /\ Head(pending[p]) # None
    /\ KernelRoute(p, Head(pending[p]))

InstallOnlyNew(p) ==
    /\ Dequeue(p)
    /\ Head(pending[p]) \in InWGRange
    /\ KernelRoute(p, IF fib[p] = None THEN Head(pending[p]) ELSE fib[p])

\* IsWithdraw: removeKernelRoute, by prefix only.
WithdrawFromKernel(p) ==
    /\ Dequeue(p)
    /\ Head(pending[p]) = None
    /\ KernelRoute(p, None)

\* installKernelRoute replaces the route of p.
InstallInKernel(p) ==
    /\ Dequeue(p)
    /\ Head(pending[p]) \in InWGRange
    /\ KernelRoute(p, Head(pending[p]))

\* A next hop outside the tunnel range: the kernel is left as it is.
SkipTransit(p) ==
    /\ Dequeue(p)
    /\ Head(pending[p]) \in Upstreams
    /\ UNCHANGED kernVars

HandleBestPath(p) == WithdrawFromKernel(p) \/ InstallInKernel(p) \/ SkipTransit(p)

-----------------------------------------------------------------------------
\* The process stops at any point and starts again.
RestartCore == CoreRestarts /\ LoseMemory("policies")

StartUpStep ==
    \/ StartBGP
    \/ ApplyPolicies
    \/ \E u \in Upstreams : AddUpstream(u) \/ AssignExportPolicy(u)
    \/ AnnounceAggregate
    \/ AnnounceAggregateFails

PeerStep ==
    \/ \E n \in NodePeers : AddPeer(n) \/ RemovePeer(n)
    \/ \E q \in Peers : SessionUp(q) \/ SessionDown(q) \/ FlushPaths(q)
    \/ \E q \in Peers, p \in Prefixes : Announce(q, p) \/ Withdraw(q, p)

Next ==
    \/ StartUpStep
    \/ PeerStep
    \/ \E p \in Prefixes : HandleBestPath(p)
    \/ RestartCore

Spec == Init /\ [][Next]_vars

\* One goroutine runs the watcher and never stops reading events; nothing
\* obliges a peer, an operator or the start-up to do anything.
Fairness == \A p \in Prefixes : WF_vars(HandleBestPath(p))

FairSpec == Spec /\ Fairness

-----------------------------------------------------------------------------
(***************************************************************************)
(* Properties.                                                             *)
(***************************************************************************)

\* Once the watcher has seen every change of a prefix, the kernel's route is
\* the best path when that leads into the tunnel range, and there is none
\* when there is no path: whatever changed meanwhile, however often
\* (speaker.go:306-344).  What the kernel refused is excepted until the next
\* change of the prefix.
FIBFollowsRIB ==
    \A p \in Prefixes \ unsynced :
        pending[p] = <<>> /\ best[p] \in InWGRange \cup {None} => fib[p] = best[p]

\* The kernel gets routes for sub-prefixes and the aggregate only: the import
\* policy is in place before the first neighbour is (policy.go:10-12).
OnlyPlannedRoutes ==
    \A p \in Foreign : fib[p] = None

\* No path learned from a node is ever sent to an upstream (policy.go:15):
\* an upstream is configured before the first node, and its session may be up
\* before its export policy is assigned.
NodeRoutesStayInside ==
    \A u \in Upstreams, p \in Prefixes : sent[u][p] \notin NodePeers

\* A kernel route leads to a node only if that node is a neighbour and offers
\* the prefix: once the watcher is through, nothing is left of a removed node or
\* a withdrawn path (speaker.go:145-153, 306-344).  Excepted are what the kernel
\* refused and a prefix whose best path is an upstream's, which the watcher
\* leaves to an older route (speaker.go:333-337).
KernelRoutesAreOffered ==
    \A p \in Prefixes \ unsynced, n \in NodePeers :
        pending[p] = <<>> /\ best[p] \notin Upstreams /\ fib[p] = n
            => n \in neighbours /\ p \in accepted[n]

\* A node whose neighbour was removed loses its routes in the kernel (README,
\* "BGP peer removed -> routes withdrawn"), unless the neighbour is added
\* again, the kernel refuses, or an upstream offers the same sub-prefix.
RemovedNodeLeavesKernel ==
    \A n \in NodePeers :
        n \notin neighbours ~>
            \/ n \in neighbours
            \/ \A p \in Prefixes :
                  fib[p] = n => p \in unsynced \/ best[p] \in Upstreams
=============================================================================
