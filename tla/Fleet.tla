-------------------------------- MODULE Fleet --------------------------------
(***************************************************************************)
(* The whole system seen from its control plane: the core of module        *)
(* Registry and one daemon of module Agent per node, with what is between  *)
(* them.  Registrations travel over the Internet and may be lost in either *)
(* direction or reach the core after the daemon has given up (doRegister's *)
(* timeout).  Heartbeats and BGP travel through the WireGuard tunnel: they *)
(* arrive only if the core routes the daemon's tunnel address to the       *)
(* daemon's key, and a BGP session also needs the neighbour on the core.   *)
(*                                                                         *)
(* Nothing connects the two sides but these messages: a daemon keeps       *)
(* running on the lease it was told whatever becomes of its record.        *)
(***************************************************************************)
EXTENDS Registry, Agent

CONSTANTS
    KeysPersist,        \* is every daemon's key in its configuration file?
    OperatorRemoves,    \* does an operator remove nodes?
    MaxDisturbances     \* bound: lost calls, crashes, outages, removals and
                        \* core restarts in one behaviour

ASSUME FleetFlagsAreBoolean == {KeysPersist, OperatorRemoves} \subseteq BOOLEAN
ASSUME MaxDisturbancesIsNat == MaxDisturbances \in Nat

VARIABLES
    call,               \* call[n]: the registration n's daemon waits for
    late,               \* requests the core may still read though the daemon
                        \* that sent them has given up
    rib,                \* the paths the core has, and the daemons they are from
    disturbances        \* how many there were

callVars  == <<call, late>>
fleetVars == <<vars, agentVars, callVars, rib, disturbances>>

-----------------------------------------------------------------------------
LeaseRecords == [ip : IPs, subnet : SubnetIDs]

Call == [stage  : {"none",          \* no request
                   "sent",          \* on its way to the core
                   "served",        \* the core's goroutine `by` works on it
                   "answered",      \* 200, on its way back
                   "refused"},      \* 503, or the connection broke
         by     : Slots \cup {None},
         answer : LeaseRecords \cup {Untold}]

Paths == [from : Nodes, ip : IPs, subnet : SubnetIDs]

NoCall == [stage |-> "none", by |-> None, answer |-> Untold]

FleetTypeOK ==
    /\ phase \in [Nodes -> Phases]
    /\ myKey \in [Nodes -> Keys \cup {None}]
    /\ attempt \in [Nodes -> 0 .. MaxAttempts - 1]
    /\ told \in [Nodes -> LeaseRecords \cup {Untold}]
    /\ call \in [Nodes -> Call]
    /\ late \in SUBSET (Nodes \X Keys)
    /\ rib \in SUBSET Paths
    /\ disturbances \in 0 .. MaxDisturbances

FleetInit ==
    /\ Init
    /\ AgentInit
    /\ call = [n \in Nodes |-> NoCall]
    /\ late = {}
    /\ rib = {}
    /\ disturbances = 0

Disturb ==
    /\ disturbances < MaxDisturbances
    /\ disturbances' = disturbances + 1

\* The core routes n's tunnel address to the key of n's running daemon.
Tunnel(n) ==
    /\ myKey[n] \in wgPeers
    /\ Host(told[n].ip) \in allowedIPs[myKey[n]]

\* Heartbeats reach the core.
GetsThrough(n) == phase[n] = "running" /\ Tunnel(n)

\* The BGP session between n's daemon and the core is up.
Linked(n) == SpeakerUp(n) /\ Tunnel(n) /\ told[n].ip \in bgpPeers

\* What n's daemon announces: its prefix, with its tunnel address as next hop.
Path(n) == [from |-> n, ip |-> told[n].ip, subnet |-> told[n].subnet]

-----------------------------------------------------------------------------
(***************************************************************************)
(* The daemons.                                                            *)
(***************************************************************************)
StartAgent(n) ==
    /\ \E k \in Keys :
         /\ KeyOwner[k] = n
         /\ KeysPersist /\ myKey[n] # None => k = myKey[n]
         /\ Launch(n, k)
    /\ UNCHANGED <<vars, callVars, rib, disturbances>>

\* The service manager starts it again after an error.
RestartAgent(n) == phase[n] = "failed" /\ StartAgent(n)

SendRegistration(n) ==
    /\ CallCore(n)
    /\ call' = [call EXCEPT ![n] = [NoCall EXCEPT !.stage = "sent"]]
    /\ UNCHANGED <<vars, late, rib, disturbances>>

ReceiveRefusal(n) ==
    /\ call[n].stage = "refused"
    /\ AttemptFailed(n)
    /\ call' = [call EXCEPT ![n] = NoCall]
    /\ UNCHANGED <<vars, late, rib, disturbances>>

ReceiveLease(n) ==
    /\ call[n].stage = "answered"
    /\ Registered200(n, call[n].answer)
    /\ call' = [call EXCEPT ![n] = NoCall]
    /\ UNCHANGED <<vars, late, rib, disturbances>>

\* Nobody waits for n's call any more.  A request that is still under way is
\* lost or late; what the core has begun it finishes.
Abandon(n) ==
    /\ call' = [call EXCEPT ![n] = NoCall]
    /\ \/ UNCHANGED late
       \/ call[n].stage = "sent" /\ late' = late \cup {<<n, myKey[n]>>}

\* No answer within doRegister's 10 seconds.
CallTimesOut(n) ==
    /\ Disturb
    /\ AttemptFailed(n)
    /\ Abandon(n)
    /\ UNCHANGED <<vars, rib>>

ConfigureAgent(n) ==
    /\ Configure(n)
    /\ UNCHANGED <<vars, callVars, rib, disturbances>>

Announce(n) ==
    /\ AnnounceRoute(n)
    /\ UNCHANGED <<vars, callVars, rib, disturbances>>

\* The session carries the announced path to the core.
Advertise(n) ==
    /\ phase[n] = "running"
    /\ Linked(n)
    /\ rib' = rib \cup {Path(n)}
    /\ UNCHANGED <<vars, agentVars, callVars, disturbances>>

\* run() fails or the process is killed.  The core keeps the paths until the
\* hold time is over.
CrashAgent(n) ==
    /\ Disturb
    /\ End(n, "failed")
    /\ Abandon(n)
    /\ UNCHANGED <<vars, rib>>

\* A signal.  Once run() handles signals it withdraws the route and ends, which
\* the core learns if the session is up and carries it in time; before that it
\* just ends.
StopAgent(n) ==
    /\ Disturb
    /\ End(n, "stopped")
    /\ Abandon(n)
    /\ \/ phase[n] = "running" /\ Linked(n) /\ rib' = rib \ {Path(n)}
       \/ UNCHANGED rib
    /\ UNCHANGED vars

\* The hold time of a session that is down ends.
HoldTimeOver(p) ==
    /\ ~ (Linked(p.from) /\ told[p.from].ip = p.ip)
    /\ rib' = rib \ {p}
    /\ UNCHANGED <<vars, agentVars, callVars, disturbances>>

AgentStep(n) ==
    \/ StartAgent(n)
    \/ SendRegistration(n)
    \/ ReceiveRefusal(n)
    \/ ReceiveLease(n)
    \/ CallTimesOut(n)
    \/ ConfigureAgent(n)
    \/ Announce(n)
    \/ Advertise(n)
    \/ CrashAgent(n)
    \/ StopAgent(n)

-----------------------------------------------------------------------------
\* Faulty variant for a mutant: a known node is refused instead of answered.
TakeCallRefusingKnown(s, n) ==
    /\ call[n].stage = "sent"
    /\ \/ /\ RegisterExisting(s, n, myKey[n])
          /\ call' = [call EXCEPT ![n] = [NoCall EXCEPT !.stage = "refused"]]
       \/ /\ RegisterAllocateIP(s, n, myKey[n])
          /\ call' = [call EXCEPT ![n] =
                        [stage |-> "served", by |-> s, answer |-> Untold]]
    /\ UNCHANGED <<agentVars, late, rib, disturbances>>
-----------------------------------------------------------------------------
(***************************************************************************)
(* The core, driven by the daemons.  The registry's steps are those of     *)
(* module Registry; here they get their causes and their answers.          *)
(***************************************************************************)

\* A registration is read; a known node and an empty pool are answered at
\* once.
TakeCall(s, n) ==
    /\ call[n].stage = "sent"
    /\ \/ /\ RegisterExisting(s, n, myKey[n])
          /\ call' = [call EXCEPT ![n] =
                        [stage |-> "answered", by |-> None,
                         answer |-> Lease(nodes[n].wgIP, nodes[n].subnet)]]
       \/ /\ RegisterAllocateIP(s, n, myKey[n])
          /\ call' = [call EXCEPT ![n] =
                        [stage |-> "served", by |-> s, answer |-> Untold]]
       \/ /\ RegisterNoIP(s, n)
          /\ call' = [call EXCEPT ![n] = [NoCall EXCEPT !.stage = "refused"]]
    /\ UNCHANGED <<agentVars, late, rib, disturbances>>

TakeLateCall(s, n, k) ==
    /\ <<n, k>> \in late
    /\ \/ RegisterExisting(s, n, k)
       \/ RegisterAllocateIP(s, n, k)
       \/ RegisterNoIP(s, n)
    /\ late' = late \ {<<n, k>>}
    /\ UNCHANGED <<agentVars, call, rib, disturbances>>

\* The goroutine s answers the daemon that waits for it, if one still does.
Answer(s, stage, lease) ==
    call' = [n \in Nodes |->
               IF call[n].by = s
               THEN [stage |-> stage, by |-> None, answer |-> lease]
               ELSE call[n]]

\* handleRegister's 200 follows the WireGuard change, its 503 the rollback.
Accept(s) ==
    /\ RegisterAddWGPeer(s)
    /\ Answer(s, "answered", Lease(th[s].ip, th[s].subnet))
    /\ UNCHANGED <<agentVars, late, rib, disturbances>>

Refuse(s) ==
    /\ RegisterRollback(s)
    /\ Answer(s, "refused", Untold)
    /\ UNCHANGED <<agentVars, late, rib, disturbances>>

\* A neighbour that is removed takes its paths along.
PathsFollowNeighbours == rib' = {p \in rib : p.ip \in bgpPeers'}

Work(s) ==
    /\ \/ RegisterInsert(s)
       \/ RegisterNoSubnet(s)
       \/ RegisterAddBGPPeer(s)
       \/ NodeUpCallback(s)
       \/ DeleteReleaseSubnet(s)
       \/ DeleteReleaseIP(s)
       \/ DeleteRemoveWGPeer(s)
       \/ DeleteRemoveBGPPeer(s)
       \/ DeleteNodeDownCallback(s)
    /\ PathsFollowNeighbours
    /\ UNCHANGED <<agentVars, callVars, disturbances>>

HeartbeatArrives(n) ==
    /\ GetsThrough(n)
    /\ Heartbeat(n) \/ \E s \in Slots : HeartbeatRecovery(s, n)
    /\ UNCHANGED <<agentVars, callVars, rib, disturbances>>

\* For 90 seconds no heartbeat of n arrives: its daemon does not get any
\* through, or the network between them is down.
HeartbeatsStop(n) ==
    /\ Lapse(n)
    /\ IF GetsThrough(n) THEN Disturb ELSE UNCHANGED disturbances
    /\ UNCHANGED <<agentVars, callVars, rib>>

\* An operator removes a node.  A late request of that node overlaps the
\* removal: it could come after it.
RemoveNode(s, n) ==
    /\ OperatorRemoves
    /\ Disturb
    /\ RequestsOverlap \/ \A k \in Keys : <<n, k>> \notin late
    /\ DeleteRecord(s, n)
    /\ UNCHANGED <<agentVars, callVars, rib>>

Check ==
    /\ CheckerStep
    /\ PathsFollowNeighbours
    /\ UNCHANGED <<agentVars, callVars, disturbances>>

\* The connections of the daemons that wait break, and so do the sessions.
CoreProcessRestarts ==
    /\ Disturb
    /\ RestartCore
    /\ call' = [n \in Nodes |->
                  IF call[n].stage = "served"
                  THEN [NoCall EXCEPT !.stage = "refused"]
                  ELSE call[n]]
    /\ late' = {}
    /\ rib' = {}
    /\ UNCHANGED agentVars

CoreStep(s) == Accept(s) \/ Refuse(s) \/ Work(s)

FleetNext ==
    \/ \E n \in Nodes : AgentStep(n)
    \/ \E p \in rib : HoldTimeOver(p)
    \/ \E s \in Slots, n \in Nodes : TakeCall(s, n) \/ RemoveNode(s, n)
    \/ \E s \in Slots, n \in Nodes, k \in Keys : TakeLateCall(s, n, k)
    \/ \E s \in Slots : CoreStep(s)
    \/ \E n \in Nodes : HeartbeatArrives(n) \/ HeartbeatsStop(n)
    \/ Check
    \/ CoreProcessRestarts

FleetSpec == FleetInit /\ [][FleetNext]_fleetVars

(***************************************************************************)
(* Fairness: every daemon and every goroutine of the core that can go on   *)
(* does, the service manager restarts a daemon that failed, and a request  *)
(* on its way to the core finds the lock and a goroutine free if they are  *)
(* free again and again.  So do heartbeats: a daemon's ticker never stops. *)
(* The checker keeps sweeping.  Faults, signals, removals, silence and the *)
(* first start of a daemon are under no obligation.                        *)
(***************************************************************************)
FleetFairness ==
    /\ \A n \in Nodes :
         /\ WF_fleetVars(RestartAgent(n))
         /\ WF_fleetVars(SendRegistration(n))
         /\ SF_fleetVars(\E s \in Slots : TakeCall(s, n))
         /\ WF_fleetVars(ReceiveRefusal(n))
         /\ WF_fleetVars(ReceiveLease(n))
         /\ WF_fleetVars(ConfigureAgent(n))
         /\ WF_fleetVars(Announce(n))
         /\ WF_fleetVars(Advertise(n))
         /\ SF_fleetVars(HeartbeatArrives(n))
    /\ SF_fleetVars(Check)
    /\ \A s \in Slots : WF_fleetVars(CoreStep(s))

FairFleetSpec == FleetSpec /\ FleetFairness

-----------------------------------------------------------------------------
(***************************************************************************)
(* Safety.                                                                 *)
(***************************************************************************)

\* A daemon never works with a lease that is not its node's: what it was told
\* is what the core's record says as long as there is one, through retries,
\* requests that arrive late, restarts on either side and changes of its key
\* (registry.go:254-260, agent main.go:222-226).
AgentKnowsItsLease ==
    \A n \in Nodes :
        told[n] # Untold /\ Registered(n)
            => told[n] = Lease(nodes[n].wgIP, nodes[n].subnet)

\* Every path the core has was announced by the node that leases its prefix
\* and its next hop: a removed node, or one the core forgot when it restarted,
\* never attracts its successor's traffic (registry.go:394-407).  Excepted are
\* a node whose removal has yet to delete the neighbour, and a successor whose
\* WireGuard peer the kernel refused: its address still leads to the former
\* holder, and the registration opens a session there.
RoutesAreTheLessees ==
    \A p \in rib :
        \/ /\ Registered(p.from)
           /\ nodes[p.from].wgIP = p.ip
           /\ nodes[p.from].subnet = p.subnet
        \/ \E s \in Slots : th[s].pc \in DeleteSteps /\ th[s].ip = p.ip
        \/ \E n \in wgErr : nodes[n].wgIP = p.ip

(***************************************************************************)
(* Liveness under FairFleetSpec.                                           *)
(***************************************************************************)

\* However often its calls are lost and it crashes, a daemon that was started
\* ends up announcing its leased prefix to the core, unless it is stopped
\* (README.md:128 "Recovery: agent re-registers -> tunnel + BGP re-establish
\* -> routes restored"; agent main.go:218-240).
RouteComesBack ==
    \A n \in Nodes :
        phase[n] # "stopped"
            ~> phase[n] = "stopped" \/ (phase[n] = "running" /\ Path(n) \in rib)
=============================================================================
