----------------------------- MODULE FleetProofs -----------------------------
(***************************************************************************)
(* What holds of the core and its daemons together, for every number of    *)
(* nodes, keys, goroutines, addresses and disturbances: driven by the      *)
(* daemons the core is still the registry of module Registry, so all that  *)
(* is proved of that carries over; and a daemon never works with a lease   *)
(* that is not its node's.                                                 *)
(***************************************************************************)
EXTENDS Fleet, LeaseProofs

\* A daemon that runs has a key of its own, waits in "calling", and knows a
\* lease from the answer on.
DaemonsInOrder ==
    \A n \in Nodes :
        /\ Alive(n) => myKey[n] \in Keys /\ KeyOwner[myKey[n]] = n
        /\ call[n].stage # "none" => phase[n] = "calling"
        /\ call[n].stage = "answered" => call[n].answer \in LeaseRecords
        /\ told[n] \in LeaseRecords <=>
             phase[n] \in {"configuring", "waiting", "running"}

LateCallsAreOwn ==
    \A n \in Nodes, k \in Keys : <<n, k>> \in late => KeyOwner[k] = n

\* A call that is being served is served by a goroutine for its node.
CallsAreServed ==
    \A n \in Nodes, s \in Slots :
        call[n].by = s => /\ call[n].stage = "served"
                          /\ th[s].node = n
                          /\ th[s].pc \in {"reg_subnet", "reg_rollback", "reg_wg"}

\* The inductive invariant, without what is only true of calm requests.
FleetInv ==
    /\ RegistryInv
    /\ FleetTypeOK
    /\ BookInv
    /\ DaemonsInOrder
    /\ LateCallsAreOwn
    /\ CallsAreServed

\* The system starts in it.
LEMMA FleetInitInv == FleetInit => FleetInv
<1> SUFFICES ASSUME FleetInit PROVE FleetInv
  OBVIOUS
<1>1. RegistryInv
  BY RegistryInit DEF FleetInit
<1>2. Untold \notin LeaseRecords
  BY NoneIsNoIP DEF Untold, Lease, LeaseRecords
<1>3. NoCall \in Call
  BY DEF NoCall, Call
<1>4. FleetTypeOK
  BY <1>3, MaxAttemptsIsPositive, MaxDisturbancesIsNat
     DEF FleetInit, AgentInit, FleetTypeOK, Phases
<1>5. BookInv
  BY BookInit DEF FleetInit
<1>6. DaemonsInOrder
  BY <1>2 DEF FleetInit, AgentInit, DaemonsInOrder, Alive, NoCall
<1>7. LateCallsAreOwn
  BY DEF FleetInit, LateCallsAreOwn
<1>8. CallsAreServed
  BY NoneIsNothing DEF FleetInit, CallsAreServed, NoCall
<1> QED
  BY <1>1, <1>4, <1>5, <1>6, <1>7, <1>8 DEF FleetInv

-----------------------------------------------------------------------------
(***************************************************************************)
(* Every step is a step of the registry, or leaves it alone.               *)
(***************************************************************************)
LEMMA FleetStepIsRegistryStep ==
    ASSUME FleetInv, [FleetNext]_fleetVars
    PROVE  [Next]_vars
<1>1. ASSUME NEW n \in Nodes, AgentStep(n)
      PROVE  UNCHANGED vars
  BY <1>1 DEF AgentStep, StartAgent, SendRegistration, ReceiveRefusal, ReceiveLease,
              CallTimesOut, ConfigureAgent, Announce, Advertise, CrashAgent, StopAgent
<1>2. ASSUME NEW s \in Slots, NEW n \in Nodes, TakeCall(s, n)
      PROVE  Next
  <2>1. myKey[n] \in Keys /\ KeyOwner[myKey[n]] = n
    BY <1>2 DEF TakeCall, FleetInv, DaemonsInOrder, Alive
  <2>2. Request(s)
    <3>1. CASE RegisterExisting(s, n, myKey[n])
      BY <2>1, <3>1 DEF Request
    <3>2. CASE RegisterAllocateIP(s, n, myKey[n])
      BY <2>1, <3>2 DEF Request
    <3>3. CASE RegisterNoIP(s, n)
      BY <3>3 DEF Request
    <3> QED
      BY <1>2, <3>1, <3>2, <3>3 DEF TakeCall
  <2> QED
    BY <2>2 DEF Next
<1>3. ASSUME NEW s \in Slots, NEW n \in Nodes, NEW k \in Keys, TakeLateCall(s, n, k)
      PROVE  Next
  <2>1. KeyOwner[k] = n
    BY <1>3 DEF TakeLateCall, FleetInv, LateCallsAreOwn
  <2>2. Request(s)
    <3>1. CASE RegisterExisting(s, n, k)
      BY <2>1, <3>1 DEF Request
    <3>2. CASE RegisterAllocateIP(s, n, k)
      BY <2>1, <3>2 DEF Request
    <3>3. CASE RegisterNoIP(s, n)
      BY <3>3 DEF Request
    <3> QED
      BY <1>3, <3>1, <3>2, <3>3 DEF TakeLateCall
  <2> QED
    BY <2>2 DEF Next
<1>4. ASSUME NEW s \in Slots, NEW n \in Nodes, RemoveNode(s, n)
      PROVE  Next
  BY <1>4 DEF RemoveNode, Request, Next
<1>5. ASSUME NEW s \in Slots, CoreStep(s)
      PROVE  Next
  <2>1. ThreadStep(s)
    BY <1>5 DEF CoreStep, Accept, Refuse, Work, ThreadStep
  <2> QED
    BY <2>1 DEF Next
<1>6. ASSUME NEW n \in Nodes, HeartbeatArrives(n) \/ HeartbeatsStop(n)
      PROVE  Next
  <2>1. CASE Heartbeat(n) \/ Lapse(n)
    BY <2>1 DEF Next
  <2>2. CASE \E s \in Slots : HeartbeatRecovery(s, n)
    <3>1. PICK s \in Slots : HeartbeatRecovery(s, n)
      BY <2>2
    <3>2. Request(s)
      BY <3>1 DEF Request
    <3> QED
      BY <3>2 DEF Next
  <2> QED
    BY <1>6, <2>1, <2>2 DEF HeartbeatArrives, HeartbeatsStop
<1>7. ASSUME Check \/ CoreProcessRestarts
      PROVE  Next
  BY <1>7 DEF Check, CoreProcessRestarts, Next
<1>8. ASSUME NEW p, HoldTimeOver(p)
      PROVE  UNCHANGED vars
  BY <1>8 DEF HoldTimeOver
<1>9. CASE UNCHANGED fleetVars
  BY <1>9 DEF fleetVars
<1> QED
  BY <1>1, <1>2, <1>3, <1>4, <1>5, <1>6, <1>7, <1>8, <1>9 DEF FleetNext

-----------------------------------------------------------------------------
(***************************************************************************)
(* The invariant, step by step: first the daemons.                         *)
(***************************************************************************)
DaemonInv ==
    FleetTypeOK /\ DaemonsInOrder /\ LateCallsAreOwn /\ CallsAreServed

LEMMA UntoldIsNoLease == Untold \notin LeaseRecords
BY NoneIsNoIP DEF Untold, Lease, LeaseRecords

LEMMA CallTypes ==
    /\ NoCall \in Call
    /\ [NoCall EXCEPT !.stage = "sent"] \in Call
    /\ [NoCall EXCEPT !.stage = "sent"].by = None
    /\ [NoCall EXCEPT !.stage = "sent"].stage = "sent"
    /\ [NoCall EXCEPT !.stage = "refused"] \in Call
    /\ [NoCall EXCEPT !.stage = "refused"].by = None
    /\ [NoCall EXCEPT !.stage = "refused"].stage = "refused"
BY DEF NoCall, Call

\* Starting, configuring, announcing: no call and no lease is touched.
LEMMA LaunchStep ==
    ASSUME DaemonInv, NEW n \in Nodes,
           StartAgent(n) \/ ConfigureAgent(n) \/ Announce(n) \/ Advertise(n)
    PROVE  DaemonInv'
<1>1. CASE StartAgent(n)
  BY <1>1, UntoldIsNoLease
     DEF DaemonInv, StartAgent, Launch, FleetTypeOK, DaemonsInOrder, Alive, Phases,
         LateCallsAreOwn, CallsAreServed, callVars, vars
<1>2. CASE ConfigureAgent(n)
  BY <1>2 DEF DaemonInv, ConfigureAgent, Configure, FleetTypeOK, DaemonsInOrder, Alive,
              Phases, LateCallsAreOwn, CallsAreServed, callVars, vars
<1>3. CASE Announce(n)
  BY <1>3 DEF DaemonInv, Announce, AnnounceRoute, FleetTypeOK, DaemonsInOrder, Alive,
              Phases, LateCallsAreOwn, CallsAreServed, callVars, vars
<1>4. CASE Advertise(n)
  <2>1. told[n] \in LeaseRecords
    BY <1>4 DEF DaemonInv, DaemonsInOrder, Advertise
  <2>2. Path(n) \in Paths
    BY <2>1 DEF Path, Paths, LeaseRecords
  <2> QED
    BY <1>4, <2>2 DEF DaemonInv, Advertise, FleetTypeOK, DaemonsInOrder, Alive,
              LateCallsAreOwn, CallsAreServed, agentVars, callVars, vars
<1> QED
  BY <1>1, <1>2, <1>3, <1>4

\* Sending a registration and receiving its answer.
LEMMA CallStep ==
    ASSUME DaemonInv, NEW n \in Nodes,
           SendRegistration(n) \/ ReceiveRefusal(n) \/ ReceiveLease(n)
    PROVE  DaemonInv'
<1>1. CASE SendRegistration(n)
  <2>1. FleetTypeOK'
    BY <1>1, CallTypes DEF DaemonInv, SendRegistration, CallCore, FleetTypeOK, Phases
  <2>2. DaemonsInOrder'
    BY <1>1, CallTypes
       DEF DaemonInv, SendRegistration, CallCore, FleetTypeOK, DaemonsInOrder, Alive
  <2>3. CallsAreServed'
    BY <1>1, CallTypes, NoneIsNothing
       DEF DaemonInv, SendRegistration, FleetTypeOK, CallsAreServed, vars
  <2> QED
    BY <1>1, <2>1, <2>2, <2>3 DEF DaemonInv, SendRegistration, LateCallsAreOwn
<1>2. CASE ReceiveRefusal(n)
  <2>1. FleetTypeOK'
    BY <1>2, CallTypes, MaxAttemptsIsPositive
       DEF DaemonInv, ReceiveRefusal, AttemptFailed, FleetTypeOK, Phases
  <2>2. DaemonsInOrder'
    BY <1>2 DEF DaemonInv, ReceiveRefusal, AttemptFailed, FleetTypeOK, DaemonsInOrder,
                Alive, NoCall
  <2>3. CallsAreServed'
    BY <1>2, NoneIsNothing
       DEF DaemonInv, ReceiveRefusal, FleetTypeOK, CallsAreServed, NoCall, vars
  <2> QED
    BY <1>2, <2>1, <2>2, <2>3 DEF DaemonInv, ReceiveRefusal, LateCallsAreOwn
<1>3. CASE ReceiveLease(n)
  <2>0. call[n].answer \in LeaseRecords
    BY <1>3 DEF DaemonInv, ReceiveLease, DaemonsInOrder
  <2>1. FleetTypeOK'
    BY <1>3, <2>0, CallTypes, MaxAttemptsIsPositive
       DEF DaemonInv, ReceiveLease, Registered200, FleetTypeOK, Phases
  <2>2. DaemonsInOrder'
    BY <1>3, <2>0 DEF DaemonInv, ReceiveLease, Registered200, FleetTypeOK,
                      DaemonsInOrder, Alive, NoCall
  <2>3. CallsAreServed'
    BY <1>3, NoneIsNothing
       DEF DaemonInv, ReceiveLease, FleetTypeOK, CallsAreServed, NoCall, vars
  <2> QED
    BY <1>3, <2>1, <2>2, <2>3 DEF DaemonInv, ReceiveLease, LateCallsAreOwn
<1> QED
  BY <1>1, <1>2, <1>3

\* What Disturb and Abandon leave behind.
LEMMA DisturbKeepsType ==
    ASSUME disturbances \in 0 .. MaxDisturbances, Disturb
    PROVE  disturbances' \in 0 .. MaxDisturbances
BY MaxDisturbancesIsNat DEF Disturb

LEMMA AbandonStep ==
    ASSUME DaemonInv, NEW n \in Nodes, Abandon(n)
    PROVE  /\ call' \in [Nodes -> Call]
           /\ late' \in SUBSET (Nodes \X Keys)
           /\ \A m \in Nodes : call'[m] = IF m = n THEN NoCall ELSE call[m]
           /\ LateCallsAreOwn'
<1>1. call' = [call EXCEPT ![n] = NoCall] /\ call \in [Nodes -> Call]
  BY DEF Abandon, DaemonInv, FleetTypeOK
<1>2. call[n].stage = "sent" => myKey[n] \in Keys /\ KeyOwner[myKey[n]] = n
  BY DEF DaemonInv, DaemonsInOrder, Alive
<1>3. late' \in SUBSET (Nodes \X Keys)
  BY <1>2 DEF Abandon, DaemonInv, FleetTypeOK
<1>4. LateCallsAreOwn'
  BY <1>2 DEF Abandon, DaemonInv, LateCallsAreOwn
<1> QED
  BY <1>1, <1>3, <1>4, CallTypes

\* Time-outs, crashes, signals.
LEMMA BreakStep ==
    ASSUME DaemonInv, NEW n \in Nodes,
           CallTimesOut(n) \/ CrashAgent(n) \/ StopAgent(n)
    PROVE  DaemonInv'
<1>1. disturbances' \in 0 .. MaxDisturbances
  BY DisturbKeepsType DEF CallTimesOut, CrashAgent, StopAgent, DaemonInv, FleetTypeOK
<1>2. CASE CallTimesOut(n)
  <2>0. Abandon(n)
    BY <1>2 DEF CallTimesOut
  <2>1. FleetTypeOK'
    BY <1>1, <1>2, <2>0, AbandonStep, MaxAttemptsIsPositive
       DEF DaemonInv, CallTimesOut, AttemptFailed, FleetTypeOK, Phases
  <2>2. DaemonsInOrder'
    BY <1>2, <2>0, AbandonStep
       DEF DaemonInv, CallTimesOut, AttemptFailed, FleetTypeOK, DaemonsInOrder,
           Alive, NoCall
  <2>3. CallsAreServed'
    BY <1>2, <2>0, AbandonStep, NoneIsNothing
       DEF DaemonInv, CallTimesOut, CallsAreServed, NoCall, vars
  <2> QED
    BY <2>0, <2>1, <2>2, <2>3, AbandonStep DEF DaemonInv
<1>3. CASE CrashAgent(n) \/ StopAgent(n)
  <2>0. Abandon(n)
    BY <1>3 DEF CrashAgent, StopAgent
  <2>1. FleetTypeOK'
    <3>1. rib' \in SUBSET Paths
      BY <1>3 DEF CrashAgent, StopAgent, DaemonInv, FleetTypeOK
    <3> QED
      BY <1>1, <1>3, <2>0, <3>1, AbandonStep, MaxAttemptsIsPositive
         DEF DaemonInv, CrashAgent, StopAgent, End, FleetTypeOK, Phases
  <2>2. DaemonsInOrder'
    BY <1>3, <2>0, AbandonStep, UntoldIsNoLease
       DEF DaemonInv, CrashAgent, StopAgent, End, FleetTypeOK, DaemonsInOrder,
           Alive, NoCall
  <2>3. CallsAreServed'
    BY <1>3, <2>0, AbandonStep, NoneIsNothing
       DEF DaemonInv, CrashAgent, StopAgent, CallsAreServed, NoCall, vars
  <2> QED
    BY <2>0, <2>1, <2>2, <2>3, AbandonStep DEF DaemonInv
<1> QED
  BY <1>2, <1>3

-----------------------------------------------------------------------------
(***************************************************************************)
(* Then the core.                                                          *)
(***************************************************************************)

\* A goroutine that is no longer idle and has passed the WireGuard step, or
\* has yet to start, serves no call; so these steps move no served call.
LEMMA QuietStep ==
    ASSUME DaemonInv,
           UNCHANGED <<agentVars, call>>,
           late' \in SUBSET late,
           rib' \in SUBSET rib,
           disturbances' \in 0 .. MaxDisturbances,
           \A s \in Slots :
              th[s].pc \in {"reg_subnet", "reg_rollback", "reg_wg"} =>
                 /\ th'[s].node = th[s].node
                 /\ th'[s].pc \in {"reg_subnet", "reg_rollback", "reg_wg"}
    PROVE  DaemonInv'
<1>1. FleetTypeOK'
  BY DEF DaemonInv, FleetTypeOK, agentVars
<1>2. DaemonsInOrder'
  BY DEF DaemonInv, DaemonsInOrder, Alive, agentVars
<1>3. LateCallsAreOwn'
  BY DEF DaemonInv, LateCallsAreOwn
<1>4. CallsAreServed'
  BY DEF DaemonInv, CallsAreServed
<1> QED
  BY <1>1, <1>2, <1>3, <1>4 DEF DaemonInv

LEMMA TakeCallStep ==
    ASSUME FleetInv, NEW s \in Slots, NEW n \in Nodes, TakeCall(s, n)
    PROVE  DaemonInv'
<1>0. DaemonInv /\ th \in [Slots -> Thread]
  BY DEF FleetInv, DaemonInv, RegistryInv, TypeOK
<1>1. CASE RegisterExisting(s, n, myKey[n])
           /\ call' = [call EXCEPT ![n] =
                         [stage |-> "answered", by |-> None,
                          answer |-> Lease(nodes[n].wgIP, nodes[n].subnet)]]
  <2>1. Lease(nodes[n].wgIP, nodes[n].subnet) \in LeaseRecords
    BY <1>1 DEF FleetInv, BookInv, RecordsComplete, RegisterExisting, Lease, LeaseRecords
  <2>2. [stage |-> "answered", by |-> None,
         answer |-> Lease(nodes[n].wgIP, nodes[n].subnet)] \in Call
    BY <2>1 DEF Call
  <2>3. FleetTypeOK'
    BY <1>0, <1>1, <2>2 DEF TakeCall, DaemonInv, FleetTypeOK, agentVars
  <2>4. DaemonsInOrder'
    BY <1>0, <1>1, <2>1
       DEF TakeCall, DaemonInv, FleetTypeOK, DaemonsInOrder, Alive, agentVars
  <2>5. CallsAreServed'
    BY <1>0, <1>1, NoneIsNothing
       DEF TakeCall, RegisterExisting, vars, DaemonInv, FleetTypeOK, CallsAreServed
  <2> QED
    BY <1>0, <2>3, <2>4, <2>5 DEF TakeCall, DaemonInv, LateCallsAreOwn
<1>2. CASE RegisterAllocateIP(s, n, myKey[n])
           /\ call' = [call EXCEPT ![n] =
                         [stage |-> "served", by |-> s, answer |-> Untold]]
  <2>2. [stage |-> "served", by |-> s, answer |-> Untold] \in Call
    BY DEF Call
  <2>3. FleetTypeOK'
    BY <1>0, <1>2, <2>2 DEF TakeCall, DaemonInv, FleetTypeOK, agentVars
  <2>4. DaemonsInOrder'
    BY <1>0, <1>2
       DEF TakeCall, DaemonInv, FleetTypeOK, DaemonsInOrder, Alive, agentVars
  <2>5. th[s].pc = "idle"
    BY <1>2 DEF RegisterAllocateIP, Idle
  <2>6. PICK ip : th' = [th EXCEPT ![s] = [pc |-> "reg_subnet", node |-> n,
                                          key |-> myKey[n], ip |-> ip, subnet |-> None]]
    BY <1>2 DEF RegisterAllocateIP
  <2>7. CallsAreServed'
    BY <1>0, <1>2, <2>5, <2>6 DEF DaemonInv, FleetTypeOK, CallsAreServed
  <2> QED
    BY <1>0, <2>3, <2>4, <2>7 DEF TakeCall, DaemonInv, LateCallsAreOwn
<1>3. CASE RegisterNoIP(s, n)
           /\ call' = [call EXCEPT ![n] = [NoCall EXCEPT !.stage = "refused"]]
  <2>3. FleetTypeOK'
    BY <1>0, <1>3, CallTypes DEF TakeCall, DaemonInv, FleetTypeOK, agentVars
  <2>4. DaemonsInOrder'
    BY <1>0, <1>3, CallTypes
       DEF TakeCall, DaemonInv, FleetTypeOK, DaemonsInOrder, Alive, agentVars
  <2>5. CallsAreServed'
    BY <1>0, <1>3, CallTypes, NoneIsNothing
       DEF TakeCall, RegisterNoIP, vars, DaemonInv, FleetTypeOK, CallsAreServed
  <2> QED
    BY <1>0, <2>3, <2>4, <2>5 DEF TakeCall, DaemonInv, LateCallsAreOwn
<1> QED
  BY <1>1, <1>2, <1>3 DEF TakeCall

LEMMA TakeLateCallStep ==
    ASSUME FleetInv, NEW s \in Slots, NEW n \in Nodes, NEW k \in Keys,
           TakeLateCall(s, n, k)
    PROVE  DaemonInv'
<1>0. DaemonInv /\ th \in [Slots -> Thread]
  BY DEF FleetInv, DaemonInv, RegistryInv, TypeOK
<1>1. CASE RegisterExisting(s, n, k) \/ RegisterNoIP(s, n)
  <2>1. UNCHANGED th
    BY <1>1 DEF RegisterExisting, RegisterNoIP, vars
  <2> QED
    BY <1>0, <2>1, QuietStep DEF TakeLateCall, DaemonInv, FleetTypeOK
<1>2. CASE RegisterAllocateIP(s, n, k)
  <2>1. \A t \in Slots : th[t].pc # "idle" => th'[t] = th[t]
    BY <1>0, <1>2 DEF RegisterAllocateIP, Idle
  <2> QED
    BY <1>0, <2>1, QuietStep DEF TakeLateCall, DaemonInv, FleetTypeOK
<1> QED
  BY <1>1, <1>2 DEF TakeLateCall

\* The two steps that answer a call.
LEMMA AnswerStep ==
    ASSUME FleetInv, NEW s \in Slots, Accept(s) \/ Refuse(s)
    PROVE  DaemonInv'
<1>0. DaemonInv /\ th \in [Slots -> Thread]
  BY DEF FleetInv, DaemonInv, RegistryInv, TypeOK
<1>1. PICK stage \in {"answered", "refused"}, lease \in LeaseRecords \cup {Untold} :
        Answer(s, stage, lease) /\ (stage = "answered" => lease \in LeaseRecords)
  <2>1. CASE Accept(s)
    <3>1. Lease(th[s].ip, th[s].subnet) \in LeaseRecords
      BY <2>1 DEF Accept, RegisterAddWGPeer, FleetInv, RegistryInv, ThreadsEquipped,
                  RegisterSteps, Lease, LeaseRecords
    <3> QED
      BY <2>1, <3>1 DEF Accept
  <2>2. CASE Refuse(s)
    BY <2>2 DEF Refuse
  <2> QED
    BY <2>1, <2>2
<1>2. \A m \in Nodes :
        call'[m] = IF call[m].by = s
                   THEN [stage |-> stage, by |-> None, answer |-> lease]
                   ELSE call[m]
  BY <1>1 DEF Answer
<1>3. [stage |-> stage, by |-> None, answer |-> lease] \in Call
  BY DEF Call
<1>4. call' \in [Nodes -> Call]
  BY <1>0, <1>1, <1>3 DEF Answer, DaemonInv, FleetTypeOK
<1>5. UNCHANGED <<agentVars, late, rib, disturbances>>
  BY DEF Accept, Refuse
<1>6. FleetTypeOK'
  BY <1>0, <1>4, <1>5 DEF DaemonInv, FleetTypeOK, agentVars
<1>7. \A m \in Nodes : call[m].by = s => phase[m] = "calling"
  BY <1>0 DEF DaemonInv, CallsAreServed, DaemonsInOrder
<1>8. DaemonsInOrder'
  BY <1>0, <1>1, <1>2, <1>5, <1>7 DEF DaemonInv, DaemonsInOrder, Alive, agentVars
<1>9. \A t \in Slots : t # s => th'[t] = th[t]
  BY <1>0 DEF Accept, Refuse, RegisterAddWGPeer, RegisterRollback
<1>10. CallsAreServed'
  BY <1>0, <1>2, <1>9, NoneIsNothing DEF DaemonInv, CallsAreServed
<1> QED
  BY <1>0, <1>5, <1>6, <1>8, <1>10 DEF DaemonInv, LateCallsAreOwn

\* The other steps of the core's goroutines.
LEMMA WorkStep ==
    ASSUME FleetInv, NEW s \in Slots, Work(s)
    PROVE  DaemonInv'
<1>0. DaemonInv /\ th \in [Slots -> Thread]
  BY DEF FleetInv, DaemonInv, RegistryInv, TypeOK
<1>1. /\ \A t \in Slots : t # s => th'[t] = th[t]
      /\ th[s].pc \in {"reg_subnet", "reg_rollback", "reg_wg"} =>
           /\ th'[s].node = th[s].node
           /\ th'[s].pc \in {"reg_subnet", "reg_rollback", "reg_wg"}
  <2>1. CASE RegisterInsert(s)
    BY <1>0, <2>1 DEF RegisterInsert
  <2>2. CASE RegisterNoSubnet(s)
    BY <1>0, <2>2 DEF RegisterNoSubnet
  <2>3. CASE ~ RegisterInsert(s) /\ ~ RegisterNoSubnet(s)
    BY <1>0, <2>3
       DEF Work, RegisterAddBGPPeer, NodeUpCallback, DeleteReleaseSubnet,
           DeleteReleaseIP, DeleteRemoveWGPeer, DeleteRemoveBGPPeer,
           DeleteNodeDownCallback
  <2> QED
    BY <2>1, <2>2, <2>3
<1>2. /\ UNCHANGED <<agentVars, call>>
      /\ late' \in SUBSET late
      /\ rib' \in SUBSET rib
      /\ disturbances' \in 0 .. MaxDisturbances
  BY <1>0 DEF Work, PathsFollowNeighbours, callVars, DaemonInv, FleetTypeOK
<1> QED
  BY <1>0, <1>1, <1>2, QuietStep

\* Heartbeats, removals, the checker, the hold timer.
LEMMA OutsideStep ==
    ASSUME FleetInv,
           \/ \E n \in Nodes : HeartbeatArrives(n) \/ HeartbeatsStop(n)
           \/ \E s \in Slots, n \in Nodes : RemoveNode(s, n)
           \/ Check
           \/ \E p \in rib : HoldTimeOver(p)
    PROVE  DaemonInv'
<1>0. DaemonInv /\ th \in [Slots -> Thread]
  BY DEF FleetInv, DaemonInv, RegistryInv, TypeOK
<1>1. \A t \in Slots : th[t].pc # "idle" => th'[t] = th[t]
  <2>1. ASSUME NEW n \in Nodes, HeartbeatArrives(n) \/ HeartbeatsStop(n)
        PROVE  \A t \in Slots : th[t].pc # "idle" => th'[t] = th[t]
    BY <1>0, <2>1 DEF HeartbeatArrives, HeartbeatsStop, Heartbeat, HeartbeatRecovery,
                      Lapse, Idle
  <2>2. ASSUME NEW s \in Slots, NEW n \in Nodes, RemoveNode(s, n)
        PROVE  \A t \in Slots : th[t].pc # "idle" => th'[t] = th[t]
    BY <1>0, <2>2 DEF RemoveNode, DeleteRecord, Idle
  <2>3. CASE Check
    BY <2>3 DEF Check, CheckerStep, Sweep, MarkDown, MarkDownCallback
  <2>4. CASE \E p \in rib : HoldTimeOver(p)
    BY <2>4 DEF HoldTimeOver, vars
  <2> QED
    BY <2>1, <2>2, <2>3, <2>4
<1>2. /\ UNCHANGED <<agentVars, call>>
      /\ late' \in SUBSET late
      /\ rib' \in SUBSET rib
  BY DEF HeartbeatArrives, HeartbeatsStop, RemoveNode, Check, HoldTimeOver, callVars,
         PathsFollowNeighbours
<1>3. disturbances' \in 0 .. MaxDisturbances
  <2>1. disturbances \in 0 .. MaxDisturbances
    BY <1>0 DEF DaemonInv, FleetTypeOK
  <2>2. UNCHANGED disturbances \/ Disturb
    BY DEF HeartbeatArrives, HeartbeatsStop, RemoveNode, Check, HoldTimeOver
  <2> QED
    BY <2>1, <2>2, DisturbKeepsType
<1> QED
  BY <1>0, <1>1, <1>2, <1>3, QuietStep

LEMMA CoreRestartStep ==
    ASSUME FleetInv, CoreProcessRestarts
    PROVE  DaemonInv'
<1>0. DaemonInv
  BY DEF FleetInv, DaemonInv
<1>1. \A m \in Nodes :
        call'[m] = IF call[m].stage = "served"
                   THEN [NoCall EXCEPT !.stage = "refused"]
                   ELSE call[m]
  BY DEF CoreProcessRestarts
<1>2. call' \in [Nodes -> Call]
  BY <1>0, CallTypes DEF CoreProcessRestarts, DaemonInv, FleetTypeOK
<1>3. FleetTypeOK'
  BY <1>0, <1>2, DisturbKeepsType DEF CoreProcessRestarts, DaemonInv, FleetTypeOK, agentVars
<1>4. DaemonsInOrder'
  BY <1>0, <1>1, CallTypes
     DEF CoreProcessRestarts, DaemonInv, DaemonsInOrder, Alive, agentVars
<1>5. CallsAreServed'
  <2>1. ASSUME NEW m \in Nodes, NEW s \in Slots, call'[m].by = s
        PROVE  FALSE
    <3>1. CASE call[m].stage = "served"
      BY <1>1, <2>1, <3>1, CallTypes, NoneIsNothing
    <3>2. CASE call[m].stage # "served"
      BY <1>0, <1>1, <2>1, <3>2 DEF DaemonInv, CallsAreServed
    <3> QED
      BY <3>1, <3>2
  <2> QED
    BY <2>1 DEF CallsAreServed
<1> QED
  BY <1>3, <1>4, <1>5 DEF CoreProcessRestarts, DaemonInv, LateCallsAreOwn

LEMMA FleetStep ==
    ASSUME FleetInv, [FleetNext]_fleetVars
    PROVE  FleetInv'
<1>1. [Next]_vars
  BY FleetStepIsRegistryStep
<1>2. RegistryInv' /\ BookInv'
  BY <1>1, RegistryStep, BookStep DEF FleetInv
<1>3. DaemonInv
  BY DEF FleetInv, DaemonInv
<1>4. DaemonInv'
  <2>1. ASSUME NEW n \in Nodes, AgentStep(n)
        PROVE  DaemonInv'
    BY <1>3, <2>1, LaunchStep, CallStep, BreakStep DEF AgentStep
  <2>2. ASSUME NEW s \in Slots, CoreStep(s)
        PROVE  DaemonInv'
    BY <2>2, AnswerStep, WorkStep DEF CoreStep
  <2>3. CASE UNCHANGED fleetVars
    BY <1>3, <2>3 DEF fleetVars, callVars, agentVars, vars, DaemonInv, FleetTypeOK,
                      DaemonsInOrder, Alive, LateCallsAreOwn, CallsAreServed
  <2> QED
    BY <2>1, <2>2, <2>3, TakeCallStep, TakeLateCallStep, OutsideStep, CoreRestartStep
       DEF FleetNext
<1> QED
  BY <1>2, <1>4 DEF FleetInv, DaemonInv

THEOREM FleetInvariant == FleetSpec => []FleetInv
<1>1. FleetInv /\ [FleetNext]_fleetVars => FleetInv'
  BY FleetStep
<1> QED
  BY FleetInitInv, <1>1, PTL DEF FleetSpec

\* The state of daemons, calls and paths is type correct.
THEOREM FleetTypeCorrect == FleetSpec => []FleetTypeOK
<1>1. FleetInv => FleetTypeOK
  BY DEF FleetInv
<1> QED
  BY FleetInvariant, <1>1, PTL

\* Driven by the daemons, the core is the registry of module Registry: what is
\* proved of that holds of the whole system.
THEOREM FleetRefinesRegistry == FleetSpec => Spec
<1>1. FleetInit => Init
  BY DEF FleetInit
<1>2. FleetInv /\ [FleetNext]_fleetVars => [Next]_vars
  BY FleetStepIsRegistryStep
<1> QED
  BY <1>1, <1>2, FleetInvariant, PTL DEF FleetSpec, Spec

-----------------------------------------------------------------------------
(***************************************************************************)
(* Calm requests: what a daemon was told is what the record says.          *)
(***************************************************************************)
RecordOf(n) == Lease(nodes[n].wgIP, nodes[n].subnet)

\* An answer on its way is the record's, too.
AnswersAreTrue ==
    \A n \in Nodes :
        call[n].stage = "answered" /\ Registered(n) => call[n].answer = RecordOf(n)

\* A registration before its insertion is for a node without a record, whose
\* daemon has not been told anything.
InsertionsAreNew ==
    \A s \in Slots :
        th[s].pc \in {"reg_subnet", "reg_rollback"} =>
            /\ ~ Registered(th[s].node)
            /\ told[th[s].node] = Untold
            /\ call[th[s].node].stage # "answered"

\* A registration after its insertion still agrees with the record.
InsertionsLast ==
    \A s \in Slots :
        th[s].pc = "reg_wg" =>
            /\ Registered(th[s].node)
            /\ Lease(th[s].ip, th[s].subnet) = RecordOf(th[s].node)

\* A late request finds the record of a node that knows its lease.
LateCallsFindRecords ==
    \A n \in Nodes, k \in Keys :
        /\ <<n, k>> \in late
        /\ told[n] # Untold \/ call[n].stage = "answered"
        => Registered(n)

LeaseInv ==
    /\ AgentKnowsItsLease
    /\ AnswersAreTrue
    /\ InsertionsAreNew
    /\ InsertionsLast
    /\ LateCallsFindRecords

LEMMA LeaseInitInv == FleetInit => LeaseInv
BY DEF FleetInit, Init, AgentInit, LeaseInv, AgentKnowsItsLease, AnswersAreTrue,
       InsertionsAreNew, InsertionsLast, LateCallsFindRecords, NoCall, IdleThread

\* Steps that touch no lease.
RecordsKept ==
    \A n \in Nodes :
        /\ Registered(n)' <=> Registered(n)
        /\ nodes'[n].wgIP = nodes[n].wgIP
        /\ nodes'[n].subnet = nodes[n].subnet

ThreadsKept ==
    \A s \in Slots :
        /\ th'[s].pc \in {"reg_subnet", "reg_rollback"} =>
             th[s].pc \in {"reg_subnet", "reg_rollback"} /\ th'[s].node = th[s].node
        /\ th'[s].pc = "reg_wg" => th'[s] = th[s]

NoNewAnswers ==
    \A n \in Nodes : call'[n].stage = "answered" => call'[n] = call[n]

LEMMA KeptStep ==
    ASSUME FleetInv, LeaseInv, RecordsKept, ThreadsKept, NoNewAnswers,
           UNCHANGED told, late' \in SUBSET late
    PROVE  LeaseInv'
<1>1. \A s \in Slots : th[s].pc \in {"reg_subnet", "reg_rollback", "reg_wg"} =>
                         th[s].node \in Nodes
  BY DEF FleetInv, RegistryInv, ThreadsEquipped
<1>2. AgentKnowsItsLease'
  BY DEF LeaseInv, AgentKnowsItsLease, RecordsKept
<1>3. AnswersAreTrue'
  BY DEF LeaseInv, AnswersAreTrue, RecordsKept, NoNewAnswers, RecordOf
<1>4. InsertionsAreNew'
  BY <1>1 DEF LeaseInv, InsertionsAreNew, RecordsKept, ThreadsKept, NoNewAnswers
<1>5. InsertionsLast'
  BY <1>1 DEF LeaseInv, InsertionsLast, RecordsKept, ThreadsKept, RecordOf
<1>6. LateCallsFindRecords'
  BY DEF LeaseInv, LateCallsFindRecords, RecordsKept, NoNewAnswers
<1> QED
  BY <1>2, <1>3, <1>4, <1>5, <1>6 DEF LeaseInv

\* A goroutine moves to a step that is not one of a registration's first.
LEMMA OneThreadMoves ==
    ASSUME NEW s \in Slots,
           \A t \in Slots : t # s => th'[t] = th[t],
           th'[s].pc \notin {"reg_subnet", "reg_rollback", "reg_wg"}
    PROVE  ThreadsKept
BY DEF ThreadsKept

LEMMA LeaseAgentStep ==
    ASSUME FleetInv, LeaseInv, NEW n \in Nodes, AgentStep(n)
    PROVE  LeaseInv'
<1>0. /\ call \in [Nodes -> Call]
      /\ told \in [Nodes -> LeaseRecords \cup {Untold}]
      /\ late \in SUBSET (Nodes \X Keys)
  BY DEF FleetInv, FleetTypeOK
<1>1. RecordsKept /\ ThreadsKept /\ UNCHANGED <<nodes, th>>
  <2>1. UNCHANGED <<nodes, th>>
    BY DEF AgentStep, StartAgent, SendRegistration, ReceiveRefusal, ReceiveLease,
           CallTimesOut, ConfigureAgent, Announce, Advertise, CrashAgent, StopAgent, vars
  <2> QED
    BY <2>1 DEF RecordsKept, ThreadsKept, Registered
<1>2. CASE StartAgent(n) \/ ConfigureAgent(n) \/ Announce(n) \/ Advertise(n)
  <2>1. UNCHANGED <<told, call, late>>
    BY <1>2 DEF StartAgent, Launch, ConfigureAgent, Configure, Announce, AnnounceRoute,
                Advertise, agentVars, callVars
  <2> QED
    BY <1>1, <2>1, KeptStep DEF NoNewAnswers
<1>3. CASE SendRegistration(n) \/ ReceiveRefusal(n)
  <2>1. UNCHANGED <<told, late>>
    BY <1>3 DEF SendRegistration, CallCore, ReceiveRefusal, AttemptFailed
  <2>2. NoNewAnswers
    BY <1>0, <1>3, CallTypes
       DEF SendRegistration, ReceiveRefusal, NoNewAnswers, NoCall
  <2> QED
    BY <1>1, <2>1, <2>2, KeptStep
<1>4. CASE ReceiveLease(n)
  <2>1. /\ call[n].stage = "answered"
        /\ told' = [told EXCEPT ![n] = call[n].answer]
        /\ call' = [call EXCEPT ![n] = NoCall]
        /\ UNCHANGED late
    BY <1>4 DEF ReceiveLease, Registered200
  <2>2. AgentKnowsItsLease'
    BY <1>0, <1>1, <2>1
       DEF LeaseInv, AgentKnowsItsLease, AnswersAreTrue, RecordOf, Registered
  <2>3. AnswersAreTrue'
    BY <1>0, <1>1, <2>1 DEF LeaseInv, AnswersAreTrue, RecordOf, Registered, NoCall
  <2>4. InsertionsAreNew'
    BY <1>0, <1>1, <2>1 DEF LeaseInv, InsertionsAreNew, Registered, NoCall
  <2>5. InsertionsLast'
    BY <1>1 DEF LeaseInv, InsertionsLast, RecordOf, Registered
  <2>6. LateCallsFindRecords'
    BY <1>0, <1>1, <2>1 DEF LeaseInv, LateCallsFindRecords, Registered, NoCall
  <2> QED
    BY <2>2, <2>3, <2>4, <2>5, <2>6 DEF LeaseInv
<1>5. CASE CallTimesOut(n) \/ CrashAgent(n) \/ StopAgent(n)
  <2>1. \A m \in Nodes : told'[m] = told[m] \/ told'[m] = Untold
    BY <1>0, <1>5 DEF CallTimesOut, AttemptFailed, CrashAgent, StopAgent, End
  <2>2. NoNewAnswers
    BY <1>0, <1>5 DEF CallTimesOut, CrashAgent, StopAgent, Abandon, NoNewAnswers,
                      NoCall, callVars
  <2>3. \A m \in Nodes, k \in Keys : <<m, k>> \in late' \ late =>
          told'[m] = Untold /\ call'[m].stage # "answered"
    <3>1. Abandon(n)
      BY <1>5 DEF CallTimesOut, CrashAgent, StopAgent
    <3>2. call'[n].stage # "answered"
      BY <1>0, <3>1 DEF Abandon, NoCall
    <3>3. call[n].stage = "sent" => told[n] = Untold
      BY <1>0 DEF FleetInv, DaemonsInOrder
    <3> QED
      BY <1>0, <2>1, <3>1, <3>2, <3>3 DEF Abandon
  <2>4. AgentKnowsItsLease'
    BY <1>1, <2>1 DEF LeaseInv, AgentKnowsItsLease, Registered
  <2>5. AnswersAreTrue'
    BY <1>1, <2>2 DEF LeaseInv, AnswersAreTrue, RecordOf, Registered, NoNewAnswers
  <2>6. InsertionsAreNew'
    <3>1. \A s \in Slots : th[s].pc \in {"reg_subnet", "reg_rollback"} =>
                             th[s].node \in Nodes
      BY DEF FleetInv, RegistryInv, ThreadsEquipped
    <3> QED
      BY <1>1, <2>1, <2>2, <3>1 DEF LeaseInv, InsertionsAreNew, Registered, NoNewAnswers
  <2>7. InsertionsLast'
    BY <1>1 DEF LeaseInv, InsertionsLast, RecordOf, Registered
  <2>8. LateCallsFindRecords'
    BY <1>1, <2>1, <2>2, <2>3
       DEF LeaseInv, LateCallsFindRecords, Registered, NoNewAnswers
  <2> QED
    BY <2>4, <2>5, <2>6, <2>7, <2>8 DEF LeaseInv
<1> QED
  BY <1>2, <1>3, <1>4, <1>5 DEF AgentStep

LEMMA LeaseTakeStep ==
    ASSUME FleetInv, LeaseInv, NEW s \in Slots, NEW n \in Nodes,
           TakeCall(s, n) \/ \E k \in Keys : TakeLateCall(s, n, k)
    PROVE  LeaseInv'
<1>0. /\ call \in [Nodes -> Call]
      /\ told \in [Nodes -> LeaseRecords \cup {Untold}]
      /\ th \in [Slots -> Thread]
  BY DEF FleetInv, FleetTypeOK, RegistryInv, TypeOK
<1>1. UNCHANGED <<nodes, told>> /\ late' \in SUBSET late
  BY DEF TakeCall, TakeLateCall, agentVars, RegisterExisting, RegisterAllocateIP,
         RegisterNoIP, vars
<1>2. RecordsKept
  BY <1>1 DEF RecordsKept, Registered
<1>3. CASE \E k \in Keys : RegisterAllocateIP(s, n, k)
           /\ (TakeCall(s, n) \/ TakeLateCall(s, n, k))
  <2>1. PICK k \in Keys : RegisterAllocateIP(s, n, k)
           /\ (TakeCall(s, n) \/ TakeLateCall(s, n, k))
    BY <1>3
  <2>2. PICK ip \in IPs :
          th' = [th EXCEPT ![s] = [pc |-> "reg_subnet", node |-> n, key |-> k,
                                   ip |-> ip, subnet |-> None]]
    BY <2>1 DEF RegisterAllocateIP
  <2>3. ~ Registered(n)
    BY <2>1 DEF RegisterAllocateIP
  <2>4. told[n] = Untold /\ call'[n].stage # "answered" /\ NoNewAnswers
    <3>1. CASE TakeCall(s, n)
      <4>1. told[n] = Untold
        BY <1>0, <3>1 DEF TakeCall, FleetInv, DaemonsInOrder
      <4>2. ~ RegisterExisting(s, n, myKey[n])
        BY <2>3 DEF RegisterExisting
      <4> QED
        BY <1>0, <3>1, <4>1, <4>2 DEF TakeCall, NoNewAnswers, NoCall
    <3>2. CASE TakeLateCall(s, n, k)
      BY <2>3, <3>2 DEF TakeLateCall, LeaseInv, LateCallsFindRecords, NoNewAnswers
    <3> QED
      BY <2>1, <3>1, <3>2
  <2>5. AgentKnowsItsLease'
    BY <1>1 DEF LeaseInv, AgentKnowsItsLease, Registered
  <2>6. AnswersAreTrue'
    BY <1>1, <2>4 DEF LeaseInv, AnswersAreTrue, RecordOf, Registered, NoNewAnswers
  <2>7. InsertionsAreNew'
    <3>1. \A t \in Slots : th[t].pc \in {"reg_subnet", "reg_rollback"} =>
                             th[t].node \in Nodes
      BY DEF FleetInv, RegistryInv, ThreadsEquipped
    <3> QED
      BY <1>0, <1>1, <2>2, <2>3, <2>4, <3>1
         DEF LeaseInv, InsertionsAreNew, Registered, NoNewAnswers
  <2>8. InsertionsLast'
    BY <1>0, <1>1, <2>2 DEF LeaseInv, InsertionsLast, RecordOf, Registered
  <2>9. LateCallsFindRecords'
    BY <1>1, <2>4 DEF LeaseInv, LateCallsFindRecords, Registered, NoNewAnswers
  <2> QED
    BY <2>5, <2>6, <2>7, <2>8, <2>9 DEF LeaseInv
<1>4. CASE UNCHANGED th /\ NoNewAnswers
  BY <1>1, <1>2, <1>4, KeptStep DEF ThreadsKept
<1>5. CASE UNCHANGED <<th, late>> /\ Registered(n)
           /\ call' = [call EXCEPT ![n] = [stage |-> "answered", by |-> None,
                                           answer |-> RecordOf(n)]]
  <2>1. AgentKnowsItsLease'
    BY <1>1 DEF LeaseInv, AgentKnowsItsLease, Registered
  <2>2. AnswersAreTrue'
    BY <1>0, <1>1, <1>5 DEF LeaseInv, AnswersAreTrue, RecordOf, Registered
  <2>3. InsertionsAreNew'
    BY <1>0, <1>1, <1>5 DEF LeaseInv, InsertionsAreNew, Registered
  <2>4. InsertionsLast'
    BY <1>1, <1>5 DEF LeaseInv, InsertionsLast, RecordOf, Registered
  <2>5. LateCallsFindRecords'
    BY <1>0, <1>1, <1>5 DEF LeaseInv, LateCallsFindRecords, Registered
  <2> QED
    BY <2>1, <2>2, <2>3, <2>4, <2>5 DEF LeaseInv
<1>6. CASE TakeCall(s, n)
  <2>1. myKey[n] \in Keys
    BY <1>6 DEF TakeCall, FleetInv, DaemonsInOrder, Alive
  <2>2. CASE RegisterExisting(s, n, myKey[n])
             /\ call' = [call EXCEPT ![n] =
                           [stage |-> "answered", by |-> None,
                            answer |-> Lease(nodes[n].wgIP, nodes[n].subnet)]]
    BY <1>5, <1>6, <2>2 DEF TakeCall, RegisterExisting, vars, RecordOf
  <2>3. CASE RegisterAllocateIP(s, n, myKey[n])
    BY <1>3, <1>6, <2>1, <2>3
  <2>4. CASE RegisterNoIP(s, n)
             /\ call' = [call EXCEPT ![n] = [NoCall EXCEPT !.stage = "refused"]]
    <3>1. NoNewAnswers
      BY <1>0, <2>4, CallTypes DEF NoNewAnswers
    <3> QED
      BY <1>4, <2>4, <3>1 DEF RegisterNoIP, vars
  <2> QED
    BY <1>6, <2>2, <2>3, <2>4 DEF TakeCall
<1>7. ASSUME NEW k \in Keys, TakeLateCall(s, n, k)
      PROVE  LeaseInv'
  <2>1. NoNewAnswers
    BY <1>7 DEF TakeLateCall, NoNewAnswers
  <2>2. CASE RegisterAllocateIP(s, n, k)
    BY <1>3, <1>7, <2>2
  <2>3. CASE RegisterExisting(s, n, k) \/ RegisterNoIP(s, n)
    BY <1>4, <2>1, <2>3 DEF RegisterExisting, RegisterNoIP, vars
  <2> QED
    BY <1>7, <2>2, <2>3 DEF TakeLateCall
<1> QED
  BY <1>6, <1>7

\* A registration is answered: with what its goroutine inserted, or not at all.
LEMMA LeaseAnswerStep ==
    ASSUME FleetInv, LeaseInv, NEW s \in Slots, Accept(s) \/ Refuse(s)
    PROVE  LeaseInv'
<1>0. /\ th \in [Slots -> Thread]
      /\ \A m \in Nodes : call[m].by = s => th[s].node = m
  BY DEF FleetInv, RegistryInv, TypeOK, CallsAreServed
<1>1. UNCHANGED <<nodes, told, late>>
  BY DEF Accept, Refuse, RegisterAddWGPeer, RegisterRollback, agentVars
<1>2. RecordsKept
  BY <1>1 DEF RecordsKept, Registered
<1>3. ThreadsKept
  <2>1. CASE Accept(s)
    <3>1. th' = [th EXCEPT ![s].pc = "reg_bgp"]
      BY <2>1 DEF Accept, RegisterAddWGPeer
    <3>2. th'[s].pc = "reg_bgp" /\ \A t \in Slots : t # s => th'[t] = th[t]
      BY <1>0, <3>1 DEF Thread
    <3> QED
      BY <3>2, OneThreadMoves
  <2>2. CASE Refuse(s)
    <3>1. th' = [th EXCEPT ![s] = IdleThread]
      BY <2>2 DEF Refuse, RegisterRollback
    <3>2. th'[s].pc = "idle" /\ \A t \in Slots : t # s => th'[t] = th[t]
      BY <1>0, <3>1 DEF IdleThread
    <3> QED
      BY <3>2, OneThreadMoves
  <2> QED
    BY <2>1, <2>2
<1>4. CASE Accept(s)
  <2>1. /\ th[s].pc = "reg_wg"
        /\ Lease(th[s].ip, th[s].subnet) = RecordOf(th[s].node)
        /\ Registered(th[s].node)
        /\ th' = [th EXCEPT ![s].pc = "reg_bgp"]
    BY <1>4 DEF Accept, RegisterAddWGPeer, LeaseInv, InsertionsLast
  <2>2. \A m \in Nodes :
          /\ call[m].by = s => /\ call'[m].answer = RecordOf(m)
                               /\ th[s].node = m
          /\ call[m].by # s => call'[m] = call[m]
    <3>1. ASSUME NEW m \in Nodes, call[m].by = s
          PROVE  call'[m].answer = RecordOf(m) /\ th[s].node = m
      <4>1. th[s].node = m
        BY <1>0, <3>1
      <4>2. call'[m].answer = Lease(th[s].ip, th[s].subnet)
        BY <1>4, <3>1 DEF Accept, Answer
      <4> QED
        BY <2>1, <4>1, <4>2
    <3>2. ASSUME NEW m \in Nodes, call[m].by # s
          PROVE  call'[m] = call[m]
      BY <1>4, <3>2 DEF Accept, Answer
    <3> QED
      BY <3>1, <3>2
  <2>3. AgentKnowsItsLease'
    BY <1>1 DEF LeaseInv, AgentKnowsItsLease, Registered
  <2>4. AnswersAreTrue'
    <3>1. ASSUME NEW m \in Nodes, call'[m].stage = "answered", Registered(m)
          PROVE  call'[m].answer = RecordOf(m)
      <4>1. CASE call[m].by = s
        BY <2>2, <4>1
      <4>2. CASE call[m].by # s
        BY <2>2, <3>1, <4>2 DEF LeaseInv, AnswersAreTrue
      <4> QED
        BY <4>1, <4>2
    <3>2. nodes' = nodes
      BY <1>1
    <3> QED
      BY <3>1, <3>2 DEF AnswersAreTrue, RecordOf, Registered
  <2>5. InsertionsAreNew'
    <3>1. ASSUME NEW t \in Slots, th'[t].pc \in {"reg_subnet", "reg_rollback"}
          PROVE  /\ ~ Registered(th[t].node)
                 /\ told[th[t].node] = Untold
                 /\ call'[th[t].node].stage # "answered"
                 /\ th'[t].node = th[t].node
      <4>1. /\ th[t].pc \in {"reg_subnet", "reg_rollback"}
            /\ th'[t].node = th[t].node
            /\ th[t].node \in Nodes
        BY <1>3, <3>1 DEF ThreadsKept, FleetInv, RegistryInv, ThreadsEquipped
      <4>2. /\ ~ Registered(th[t].node)
            /\ told[th[t].node] = Untold
            /\ call[th[t].node].stage # "answered"
        BY <4>1 DEF LeaseInv, InsertionsAreNew
      <4>3. call[th[t].node].by # s
        BY <1>0, <2>1, <4>1, <4>2
      <4> QED
        BY <2>2, <4>1, <4>2, <4>3
    <3> QED
      BY <1>1, <3>1 DEF InsertionsAreNew, Registered
  <2>6. InsertionsLast'
    BY <1>1, <1>3 DEF LeaseInv, InsertionsLast, RecordOf, Registered, ThreadsKept
  <2>7. LateCallsFindRecords'
    BY <1>0, <1>1, <2>1, <2>2 DEF LeaseInv, LateCallsFindRecords, Registered
  <2> QED
    BY <2>3, <2>4, <2>5, <2>6, <2>7 DEF LeaseInv
<1>5. CASE Refuse(s)
  <2>1. NoNewAnswers
    BY <1>5 DEF Refuse, Answer, NoNewAnswers
  <2> QED
    BY <1>1, <1>2, <1>3, <2>1, KeptStep
<1> QED
  BY <1>4, <1>5

\* A record is inserted, by the goroutine that holds the lock.
LEMMA LeaseInsertStep ==
    ASSUME FleetInv, LeaseInv, NEW s \in Slots, RegisterInsert(s),
           UNCHANGED <<told, call, late>>
    PROVE  LeaseInv'
<1>0. th \in [Slots -> Thread] /\ nodes \in [Nodes -> NodeRecord]
  BY DEF FleetInv, RegistryInv, TypeOK
<1> DEFINE n == th[s].node
<1>1. /\ n \in Nodes
      /\ ~ Registered(n)
      /\ told[n] = Untold
      /\ call[n].stage # "answered"
  BY DEF RegisterInsert, FleetInv, RegistryInv, ThreadsEquipped, LeaseInv, InsertionsAreNew
<1>2. PICK sub \in SubnetIDs :
        /\ nodes' = [nodes EXCEPT ![n] = [state |-> "pending", key |-> th[s].key,
                                          wgIP |-> th[s].ip, subnet |-> sub,
                                          fresh |-> TRUE]]
        /\ th' = [th EXCEPT ![s] = [@ EXCEPT !.pc = "reg_wg", !.subnet = sub]]
  BY DEF RegisterInsert
<1>3. \A m \in Nodes : m # n => nodes'[m] = nodes[m]
  BY <1>0, <1>1, <1>2
<1>4. Registered(n)' /\ RecordOf(n)' = Lease(th[s].ip, sub)
  BY <1>0, <1>1, <1>2 DEF Registered, RecordOf
<1>5. /\ th'[s].pc = "reg_wg"
      /\ th'[s].node = n
      /\ th'[s].ip = th[s].ip
      /\ th'[s].subnet = sub
      /\ \A t \in Slots : t # s => th'[t] = th[t]
  BY <1>0, <1>2 DEF Thread
<1>6. \A t \in Slots : t # s => th[t].pc \notin {"reg_subnet", "reg_rollback"}
  BY DEF RegisterInsert, FleetInv, RegistryInv, CriticalSectionOwnsLock
<1>7. \A t \in Slots : th[t].pc = "reg_wg" => th[t].node \in Nodes /\ th[t].node # n
  BY <1>1 DEF FleetInv, RegistryInv, ThreadsEquipped, LeaseInv, InsertionsLast
<1>8. AgentKnowsItsLease'
  BY <1>1, <1>3 DEF LeaseInv, AgentKnowsItsLease, Registered
<1>9. AnswersAreTrue'
  BY <1>1, <1>3 DEF LeaseInv, AnswersAreTrue, Registered, RecordOf
<1>10. InsertionsAreNew'
  BY <1>5, <1>6 DEF InsertionsAreNew
<1>11. InsertionsLast'
  <2>1. ASSUME NEW t \in Slots, th'[t].pc = "reg_wg"
        PROVE  /\ Registered(th[t].node)'
               /\ Lease(th'[t].ip, th'[t].subnet) = RecordOf(th[t].node)'
    <3>1. CASE t = s
      BY <1>4, <1>5, <3>1 DEF Registered, RecordOf
    <3>2. CASE t # s
      <4>1. th'[t] = th[t] /\ nodes'[th[t].node] = nodes[th[t].node]
        BY <1>3, <1>5, <1>7, <2>1, <3>2
      <4> QED
        BY <2>1, <4>1 DEF LeaseInv, InsertionsLast, Registered, RecordOf
    <3> QED
      BY <3>1, <3>2
  <2> QED
    BY <2>1 DEF InsertionsLast
<1>12. LateCallsFindRecords'
  <2>1. ASSUME NEW m \in Nodes, NEW k \in Keys, <<m, k>> \in late,
               told[m] # Untold \/ call[m].stage = "answered"
        PROVE  nodes'[m].state # "absent"
    <3>1. Registered(m)
      BY <2>1 DEF LeaseInv, LateCallsFindRecords
    <3> QED
      BY <1>1, <1>3, <3>1 DEF Registered
  <2> QED
    BY <2>1 DEF LateCallsFindRecords, Registered
<1> QED
  BY <1>8, <1>9, <1>10, <1>11, <1>12 DEF LeaseInv

LEMMA LeaseWorkStep ==
    ASSUME FleetInv, LeaseInv, NEW s \in Slots, Work(s)
    PROVE  LeaseInv'
<1>0. th \in [Slots -> Thread]
  BY DEF FleetInv, RegistryInv, TypeOK
<1>1. UNCHANGED <<told, call, late>>
  BY DEF Work, agentVars, callVars
<1>2. CASE RegisterInsert(s)
  BY <1>1, <1>2, LeaseInsertStep
<1>3. CASE ~ RegisterInsert(s)
  <2>1. UNCHANGED nodes
    BY <1>3 DEF Work, RegisterNoSubnet, RegisterAddBGPPeer, NodeUpCallback,
                DeleteReleaseSubnet, DeleteReleaseIP, DeleteRemoveWGPeer,
                DeleteRemoveBGPPeer, DeleteNodeDownCallback
  <2>2. ThreadsKept
    <3>1. CASE RegisterNoSubnet(s)
      BY <1>0, <3>1 DEF RegisterNoSubnet, ThreadsKept
    <3>2. CASE ~ RegisterNoSubnet(s)
      <4>1. \/ \E step \in {"up", "del_ip", "del_wg", "del_bgp", "del_down"} :
                  th' = [th EXCEPT ![s].pc = step]
            \/ th' = [th EXCEPT ![s] = IdleThread]
        BY <1>3, <3>2
           DEF Work, RegisterAddBGPPeer, NodeUpCallback, DeleteReleaseSubnet,
               DeleteReleaseIP, DeleteRemoveWGPeer, DeleteRemoveBGPPeer,
               DeleteNodeDownCallback
      <4>2. /\ \A t \in Slots : t # s => th'[t] = th[t]
            /\ th'[s].pc \in {"idle", "up", "del_ip", "del_wg", "del_bgp", "del_down"}
        BY <1>0, <4>1 DEF Thread, IdleThread
      <4> QED
        BY <4>2, OneThreadMoves
    <3> QED
      BY <3>1, <3>2
  <2> QED
    BY <1>1, <2>1, <2>2, KeptStep DEF RecordsKept, Registered, NoNewAnswers
<1> QED
  BY <1>2, <1>3

\* Heartbeats, the checker, the hold timer.
LEMMA LeaseOutsideStep ==
    ASSUME FleetInv, LeaseInv,
           \/ \E n \in Nodes : HeartbeatArrives(n) \/ HeartbeatsStop(n)
           \/ Check
           \/ \E p \in rib : HoldTimeOver(p)
    PROVE  LeaseInv'
<1>0. th \in [Slots -> Thread] /\ nodes \in [Nodes -> NodeRecord]
  BY DEF FleetInv, RegistryInv, TypeOK
<1>1. UNCHANGED <<told, call, late>>
  BY DEF HeartbeatArrives, HeartbeatsStop, Check, HoldTimeOver, agentVars, callVars
<1>2. RecordsKept /\ ThreadsKept
  <2>1. ASSUME NEW n \in Nodes, HeartbeatArrives(n)
        PROVE  RecordsKept /\ ThreadsKept
    <3>1. Registered(n) /\ nodes' = Refreshed(n)
      BY <2>1 DEF HeartbeatArrives, Heartbeat, HeartbeatRecovery, Registered
    <3>2. RecordsKept
      BY <1>0, <3>1 DEF Refreshed, RecordsKept, Registered, NodeRecord
    <3>3. CASE Heartbeat(n)
      BY <3>2, <3>3 DEF Heartbeat, ThreadsKept
    <3>4. ASSUME NEW s \in Slots, HeartbeatRecovery(s, n)
          PROVE  ThreadsKept
      <4>1. th'[s].pc = "up" /\ \A t \in Slots : t # s => th'[t] = th[t]
        BY <1>0, <3>4 DEF HeartbeatRecovery, IdleThread
      <4> QED
        BY <4>1, OneThreadMoves
    <3> QED
      BY <2>1, <3>2, <3>3, <3>4 DEF HeartbeatArrives
  <2>2. ASSUME NEW n \in Nodes, HeartbeatsStop(n)
        PROVE  RecordsKept /\ ThreadsKept
    BY <1>0, <2>2 DEF HeartbeatsStop, Lapse, RecordsKept, ThreadsKept, Registered
  <2>3. CASE Check
    <3>1. \/ UNCHANGED nodes
          \/ \E n \in Nodes : Registered(n) /\ nodes' = [nodes EXCEPT ![n].state = "down"]
      BY <2>3 DEF Check, CheckerStep, Sweep, MarkDown, MarkDownCallback, Registered
    <3>2. RecordsKept
      BY <1>0, <3>1 DEF RecordsKept, Registered, NodeRecord
    <3>3. UNCHANGED th
      BY <2>3 DEF Check, CheckerStep, Sweep, MarkDown, MarkDownCallback
    <3> QED
      BY <3>2, <3>3 DEF ThreadsKept
  <2>4. CASE \E p \in rib : HoldTimeOver(p)
    BY <2>4 DEF HoldTimeOver, vars, RecordsKept, ThreadsKept, Registered
  <2> QED
    BY <2>1, <2>2, <2>3, <2>4
<1> QED
  BY <1>1, <1>2, KeptStep DEF NoNewAnswers

\* A removal finds no registration of the node under way and none to come.
LEMMA LeaseRemoveStep ==
    ASSUME RequestsOverlap = FALSE, FleetInv, LeaseInv,
           NEW s \in Slots, NEW n \in Nodes, RemoveNode(s, n)
    PROVE  LeaseInv'
<1>0. th \in [Slots -> Thread] /\ nodes \in [Nodes -> NodeRecord]
  BY DEF FleetInv, RegistryInv, TypeOK
<1>1. /\ UNCHANGED <<told, call, late>>
      /\ \A k \in Keys : <<n, k>> \notin late
      /\ ~ InFlight(n, RegisterSteps)
  BY DEF RemoveNode, DeleteRecord, DeleteAllowed, agentVars, callVars
<1>2. ~ Registered(n)' /\ \A m \in Nodes : m # n => nodes'[m] = nodes[m]
  BY <1>0 DEF RemoveNode, DeleteRecord, Registered, NoNode
<1>3. \A t \in Slots : th'[t].pc \in RegisterSteps =>
          th'[t] = th[t] /\ th[t].node \in Nodes /\ th[t].node # n
  <2>1. th'[s].pc \notin RegisterSteps /\ \A t \in Slots : t # s => th'[t] = th[t]
    BY <1>0 DEF RemoveNode, DeleteRecord, RegisterSteps
  <2> QED
    BY <1>1, <2>1 DEF InFlight, FleetInv, RegistryInv, ThreadsEquipped, RegisterSteps
<1>4. AgentKnowsItsLease'
  BY <1>1, <1>2 DEF LeaseInv, AgentKnowsItsLease, Registered
<1>5. AnswersAreTrue'
  BY <1>1, <1>2 DEF LeaseInv, AnswersAreTrue, Registered, RecordOf
<1>6. InsertionsAreNew'
  BY <1>1, <1>2, <1>3 DEF LeaseInv, InsertionsAreNew, Registered, RegisterSteps
<1>7. InsertionsLast'
  BY <1>2, <1>3 DEF LeaseInv, InsertionsLast, Registered, RecordOf, RegisterSteps
<1>8. LateCallsFindRecords'
  BY <1>1, <1>2 DEF LeaseInv, LateCallsFindRecords, Registered
<1> QED
  BY <1>4, <1>5, <1>6, <1>7, <1>8 DEF LeaseInv

\* After a restart there is no record a daemon could disagree with.
LEMMA LeaseRestartStep ==
    ASSUME FleetInv, LeaseInv, CoreProcessRestarts
    PROVE  LeaseInv'
<1>1. \A n \in Nodes : ~ Registered(n)'
  BY DEF CoreProcessRestarts, RestartCore, Registered, NoNode
<1>2. \A t \in Slots : th'[t].pc = "idle"
  BY DEF CoreProcessRestarts, RestartCore, IdleThread
<1>3. late' = {}
  BY DEF CoreProcessRestarts
<1> QED
  BY <1>1, <1>2, <1>3
     DEF LeaseInv, AgentKnowsItsLease, AnswersAreTrue, InsertionsAreNew,
         InsertionsLast, LateCallsFindRecords

LEMMA LeaseStep ==
    ASSUME RequestsOverlap = FALSE, FleetInv, LeaseInv, [FleetNext]_fleetVars
    PROVE  LeaseInv'
<1>1. ASSUME NEW s \in Slots, CoreStep(s)
      PROVE  LeaseInv'
  BY <1>1, LeaseAnswerStep, LeaseWorkStep DEF CoreStep
<1>2. CASE UNCHANGED fleetVars
  <2>1. UNCHANGED <<nodes, th, told, call, late>>
    BY <1>2 DEF fleetVars, vars, agentVars, callVars
  <2> QED
    BY <2>1, KeptStep DEF RecordsKept, ThreadsKept, NoNewAnswers, Registered
<1> QED
  BY <1>1, <1>2, LeaseAgentStep, LeaseTakeStep, LeaseRemoveStep, LeaseOutsideStep,
     LeaseRestartStep DEF FleetNext

\* However registrations are lost, repeated and late, processes restart and
\* keys change: with calm requests a daemon's lease is its record's.
THEOREM AgentsKnowTheirLeases ==
    ASSUME RequestsOverlap = FALSE
    PROVE  FleetSpec => []AgentKnowsItsLease
<1>1. FleetInv /\ LeaseInv /\ [FleetNext]_fleetVars => LeaseInv'
  BY LeaseStep
<1>2. LeaseInv => AgentKnowsItsLease
  BY DEF LeaseInv
<1> QED
  BY LeaseInitInv, FleetInvariant, <1>1, <1>2, PTL DEF FleetSpec

-----------------------------------------------------------------------------
(***************************************************************************)
(* Calm requests: whose the routes are.                                    *)
(***************************************************************************)

\* A path goes when its neighbour goes.
RibHasNeighbours == \A p \in rib : p.ip \in bgpPeers

LEMMA RibFollows ==
    ASSUME RibHasNeighbours, [FleetNext]_fleetVars
    PROVE  RibHasNeighbours'
<1>1. CASE PathsFollowNeighbours
  BY <1>1 DEF PathsFollowNeighbours, RibHasNeighbours
<1>2. CASE rib' \in SUBSET rib /\ UNCHANGED bgpPeers
  BY <1>2 DEF RibHasNeighbours
<1>3. ASSUME NEW n \in Nodes, Advertise(n)
      PROVE  RibHasNeighbours'
  <2>1. UNCHANGED bgpPeers /\ rib' = rib \cup {Path(n)} /\ Path(n).ip \in bgpPeers
    BY <1>3 DEF Advertise, Linked, Path, vars
  <2> QED
    BY <2>1 DEF RibHasNeighbours
<1>4. ASSUME NEW n \in Nodes, AgentStep(n)
      PROVE  Advertise(n) \/ (rib' \in SUBSET rib /\ UNCHANGED bgpPeers)
  BY <1>4 DEF AgentStep, StartAgent, SendRegistration, ReceiveRefusal, ReceiveLease,
              CallTimesOut, ConfigureAgent, Announce, CrashAgent, StopAgent, vars
<1>5. ASSUME NEW s \in Slots,
             \/ CoreStep(s)
             \/ \E n \in Nodes : \/ TakeCall(s, n)
                                 \/ RemoveNode(s, n)
                                 \/ \E k \in Keys : TakeLateCall(s, n, k)
      PROVE  PathsFollowNeighbours \/ (rib' \in SUBSET rib /\ UNCHANGED bgpPeers)
  BY <1>5 DEF CoreStep, Accept, Refuse, Work, TakeCall, TakeLateCall, RemoveNode,
              RegisterAddWGPeer, RegisterRollback, RegisterExisting, RegisterAllocateIP,
              RegisterNoIP, DeleteRecord, vars
<1>6. ASSUME NEW n \in Nodes, HeartbeatArrives(n) \/ HeartbeatsStop(n)
      PROVE  rib' \in SUBSET rib /\ UNCHANGED bgpPeers
  BY <1>6 DEF HeartbeatArrives, HeartbeatsStop, Heartbeat, HeartbeatRecovery, Lapse
<1>7. ASSUME \/ \E p \in rib : HoldTimeOver(p)
             \/ UNCHANGED fleetVars
      PROVE  rib' \in SUBSET rib /\ UNCHANGED bgpPeers
  BY <1>7 DEF HoldTimeOver, fleetVars, vars
<1>8. CASE Check
  BY <1>1, <1>8 DEF Check
<1>9. CASE CoreProcessRestarts
  BY <1>9 DEF CoreProcessRestarts, RibHasNeighbours
<1> QED
  BY <1>1, <1>2, <1>3, <1>4, <1>5, <1>6, <1>7, <1>8, <1>9 DEF FleetNext

\* The path of a running daemon whose session is up leads to the lessee: the
\* neighbour's address is leased, and its tunnel is that daemon's own.
LEMMA NewPathIsTheLessees ==
    ASSUME FleetInv, LeaseInv, PeerInv, NeighbourInv, NEW n \in Nodes, Advertise(n)
    PROVE  \/ /\ Registered(n)
              /\ nodes[n].wgIP = told[n].ip
              /\ nodes[n].subnet = told[n].subnet
           \/ \E s \in Slots : th[s].pc \in DeleteSteps /\ th[s].ip = told[n].ip
           \/ \E m \in wgErr : nodes[m].wgIP = told[n].ip
<1> USE DEF PeerInv, LeaseTableInv
<1>1. /\ told[n].ip \in bgpPeers
      /\ Host(told[n].ip) \in allowedIPs[myKey[n]]
      /\ myKey[n] \in Keys /\ KeyOwner[myKey[n]] = n
      /\ told[n] \in LeaseRecords
  BY DEF Advertise, Linked, Tunnel, FleetInv, DaemonsInOrder, Alive
<1>2. told[n].ip \in IPs /\ told[n] # Untold
  BY <1>1, UntoldIsNoLease DEF LeaseRecords
<1>3. CASE \E s \in Slots : th[s].pc \in DeleteSteps /\ th[s].ip = told[n].ip
  BY <1>3
<1>4. ASSUME NEW m \in Nodes, nodes[m].wgIP = told[n].ip, m \notin wgErr,
             told[n].ip \notin Removing
      PROVE  /\ Registered(n)
             /\ nodes[n].wgIP = told[n].ip
             /\ nodes[n].subnet = told[n].subnet
  <2>1. Registered(m)
    BY <1>2, <1>4, NoneIsNoIP DEF BookInv, RecordsComplete, NoNode
  <2>2. ~ InFlight(m, {"reg_wg"})
    <3> SUFFICES ASSUME NEW t \in Slots, th[t].node = m, th[t].pc = "reg_wg"
                 PROVE  FALSE
      BY DEF InFlight
    <3>1. th[t].pc \in SettlingSteps /\ th[t].ip = told[n].ip
      BY <1>4 DEF CalmInv, SettlersMatch, SettlingSteps
    <3> QED
      BY <1>1, <1>4, <3>1 DEF NeighbourInv, SettlersAreUnknown
  <2>3. Host(told[n].ip) \in allowedIPs[nodes[m].key]
    BY <1>4, <2>1, <2>2 DEF TunnelInv, TunnelsStand
  <2>4. nodes[m].key \in Keys /\ KeyOwner[nodes[m].key] = m
    BY <2>1 DEF BookInv, RecordsComplete
  <2>5. Host(told[n].ip) \in Prefixes
    BY <1>2 DEF Prefixes
  <2>6. nodes[m].key = myKey[n]
    BY <1>1, <2>3, <2>4, <2>5 DEF TunnelInv, OnePeerPerPrefix
  <2>7. m = n
    BY <1>1, <2>4, <2>6
  <2>8. told[n] = Lease(nodes[n].wgIP, nodes[n].subnet)
    BY <1>2, <2>1, <2>7 DEF LeaseInv, AgentKnowsItsLease
  <2> QED
    BY <2>1, <2>7, <2>8 DEF Lease
<1>5. told[n].ip \in Removing \/ \E m \in Nodes : nodes[m].wgIP = told[n].ip
  BY <1>1 DEF NeighbourInv, NoGhostNeighbour, Ghosts, Leased
<1> QED
  BY <1>3, <1>4, <1>5 DEF Removing

\* The paths the core has stay the lessees' whatever the registry does next.
LEMMA RoutesStay ==
    ASSUME FleetInv, PeerInv, RoutesAreTheLessees, RibHasNeighbours',
           [Next]_vars, rib' \in SUBSET rib
    PROVE  RoutesAreTheLessees'
<1> USE DEF PeerInv, LeaseTableInv
<1>0. \A p \in rib : p.from \in Nodes /\ p.ip \in IPs
  BY DEF FleetInv, FleetTypeOK, Paths
<1>1. ASSUME LeasesKept, wgErr \subseteq wgErr',
             \A t \in Slots : th[t].pc \in DeleteSteps =>
                 \/ th'[t].pc \in DeleteSteps /\ th'[t].ip = th[t].ip
                 \/ th[t].ip \notin bgpPeers'
      PROVE  RoutesAreTheLessees'
  <2> SUFFICES ASSUME NEW p \in rib'
               PROVE  \/ /\ nodes'[p.from].state # "absent"
                         /\ nodes'[p.from].wgIP = p.ip
                         /\ nodes'[p.from].subnet = p.subnet
                      \/ \E s \in Slots : th'[s].pc \in DeleteSteps /\ th'[s].ip = p.ip
                      \/ \E n \in wgErr' : nodes'[n].wgIP = p.ip
    BY DEF RoutesAreTheLessees, Registered
  <2>1. p \in rib /\ p.from \in Nodes /\ p.ip \in bgpPeers'
    BY <1>0 DEF RibHasNeighbours
  <2>2. CASE /\ Registered(p.from)
             /\ nodes[p.from].wgIP = p.ip
             /\ nodes[p.from].subnet = p.subnet
    BY <1>1, <2>1, <2>2 DEF LeasesKept, Registered
  <2>3. CASE \E s \in Slots : th[s].pc \in DeleteSteps /\ th[s].ip = p.ip
    BY <1>1, <2>1, <2>3
  <2>4. CASE \E n \in wgErr : nodes[n].wgIP = p.ip
    <3>1. wgErr \subseteq Nodes
      BY DEF RegistryInv, TypeOK
    <3> QED
      BY <1>1, <2>4, <3>1 DEF LeasesKept
  <2> QED
    BY <2>1, <2>2, <2>3, <2>4 DEF RoutesAreTheLessees
<1>2. CASE ConfiguresNothing
  BY <1>1, <1>2, ConfiguresNothingEffect DEF PeersPending
<1>3. ASSUME NEW s \in Slots,
             \/ RegisterAddWGPeer(s)
             \/ RegisterAddBGPPeer(s)
             \/ DeleteRemoveWGPeer(s)
             \/ DeleteRemoveBGPPeer(s)
             \/ DeleteNodeDownCallback(s)
      PROVE  RoutesAreTheLessees'
  <2>1. UNCHANGED nodes /\ wgErr \subseteq wgErr'
    BY <1>3 DEF RegisterAddWGPeer, RegisterAddBGPPeer, DeleteRemoveWGPeer,
                DeleteRemoveBGPPeer, DeleteNodeDownCallback
  <2>2. LeasesKept
    BY <2>1, LeasesGoOn
  <2>3. \A t \in Slots : t # s => th'[t] = th[t]
    BY <1>3, Types DEF RegisterAddWGPeer, RegisterAddBGPPeer, DeleteRemoveWGPeer,
                       DeleteRemoveBGPPeer, DeleteNodeDownCallback
  <2>4. th[s].pc \in DeleteSteps => \/ th'[s].pc \in DeleteSteps /\ th'[s].ip = th[s].ip
                                    \/ th[s].ip \notin bgpPeers'
    <3>1. CASE RegisterAddWGPeer(s) \/ RegisterAddBGPPeer(s)
      BY <3>1 DEF RegisterAddWGPeer, RegisterAddBGPPeer, DeleteSteps
    <3>2. CASE DeleteRemoveWGPeer(s) \/ DeleteRemoveBGPPeer(s)
      BY <3>2, Types DEF DeleteRemoveWGPeer, DeleteRemoveBGPPeer, DeleteSteps, Thread
    <3>3. CASE DeleteNodeDownCallback(s)
      BY <3>3 DEF DeleteNodeDownCallback, OnNodeDown, RemoveBGPPeer
    <3> QED
      BY <1>3, <3>1, <3>2, <3>3
  <2> QED
    BY <1>1, <2>1, <2>2, <2>3, <2>4
<1>4. CASE MarkDownCallback
  <2>1. UNCHANGED <<nodes, th, wgErr>>
    BY <1>4 DEF MarkDownCallback
  <2>2. LeasesKept
    BY <2>1, LeasesGoOn
  <2> QED
    BY <1>1, <2>1, <2>2
<1>5. ASSUME NEW s \in Slots, RegisterInsert(s)
      PROVE  RoutesAreTheLessees'
  <2>0. PICK n \in Nodes : n = th[s].node
    BY <1>5, InsertEffect
  <2>1. ~ Registered(n) /\ nodes[n].wgIP = None
    <3>1. ~ Registered(n)
      BY <1>5, <2>0, InsertEffect DEF Registered
    <3> QED
      BY <3>1 DEF BookInv, RecordsComplete, NoNode
  <2>2. PICK sub \in SubnetIDs : Inserted(s, sub)
    BY <1>5, InsertEffect
  <2>3. /\ UNCHANGED wgErr /\ th[s].pc \notin DeleteSteps
        /\ \A m \in Nodes : m # n => nodes'[m] = nodes[m]
        /\ \A t \in Slots : t # s => th'[t] = th[t]
    BY <2>0, <2>2 DEF Inserted, DeleteSteps
  <2>4. wgErr \subseteq Nodes
    BY DEF RegistryInv, TypeOK
  <2>5. ASSUME NEW p \in rib'
        PROVE  \/ /\ nodes'[p.from].state # "absent"
                  /\ nodes'[p.from].wgIP = p.ip
                  /\ nodes'[p.from].subnet = p.subnet
               \/ \E t \in Slots : th'[t].pc \in DeleteSteps /\ th'[t].ip = p.ip
               \/ \E m \in wgErr' : nodes'[m].wgIP = p.ip
    BY <1>0, <2>1, <2>3, <2>4, <2>5, NoneIsNoIP DEF RoutesAreTheLessees, Registered
  <2> QED
    BY <2>5 DEF RoutesAreTheLessees, Registered
<1>6. ASSUME NEW s \in Slots, NEW n \in Nodes, DeleteRecord(s, n)
      PROVE  RoutesAreTheLessees'
  <2>1. wgErr' = wgErr \ {n} /\ th[s].pc = "idle"
    BY <1>6, DeleteEffect
  <2>2. \A m \in Nodes : m # n => nodes'[m] = nodes[m]
    BY <1>6, DeleteEffect
  <2>3. th'[s].pc \in DeleteSteps /\ th'[s].ip = nodes[n].wgIP
    <3>1. th'[s] = [pc |-> "del_subnet", node |-> n, key |-> nodes[n].key,
                    ip |-> nodes[n].wgIP, subnet |-> None]
      BY <1>6, DeleteEffect
    <3> QED
      BY <3>1 DEF DeleteSteps
  <2>4. \A t \in Slots : th[t].pc \in DeleteSteps => th'[t] = th[t]
    BY <1>6, <2>1, DeleteEffect DEF DeleteSteps
  <2>5. wgErr \subseteq Nodes
    BY DEF RegistryInv, TypeOK
  <2>6. ASSUME NEW p \in rib'
        PROVE  \/ /\ nodes'[p.from].state # "absent"
                  /\ nodes'[p.from].wgIP = p.ip
                  /\ nodes'[p.from].subnet = p.subnet
               \/ \E t \in Slots : th'[t].pc \in DeleteSteps /\ th'[t].ip = p.ip
               \/ \E m \in wgErr' : nodes'[m].wgIP = p.ip
    <3>1. CASE nodes[n].wgIP = p.ip
      BY <2>3, <3>1
    <3>2. CASE nodes[n].wgIP # p.ip
      BY <1>0, <2>1, <2>2, <2>4, <2>5, <2>6, <3>2 DEF RoutesAreTheLessees, Registered
    <3> QED
      BY <3>1, <3>2
  <2> QED
    BY <2>6 DEF RoutesAreTheLessees, Registered
<1>7. CASE RestartCore
  BY <1>7 DEF RestartCore, RibHasNeighbours, RoutesAreTheLessees
<1> QED
  BY <1>2, <1>3, <1>4, <1>5, <1>6, <1>7, StepsOfThePeers

LEMMA RoutesStep ==
    ASSUME FleetInv, LeaseInv, PeerInv, NeighbourInv, RoutesAreTheLessees,
           RibHasNeighbours', [FleetNext]_fleetVars
    PROVE  RoutesAreTheLessees'
<1>1. ASSUME NEW n \in Nodes, Advertise(n)
      PROVE  RoutesAreTheLessees'
  <2>1. UNCHANGED <<nodes, th, wgErr>> /\ rib' = rib \cup {Path(n)}
    BY <1>1 DEF Advertise, vars
  <2>2. /\ Path(n).from = n /\ Path(n).ip = told[n].ip /\ Path(n).subnet = told[n].subnet
    BY DEF Path
  <2> QED
    BY <1>1, <2>1, <2>2, NewPathIsTheLessees DEF RoutesAreTheLessees, Registered
<1>2. ASSUME \A n \in Nodes : ~ Advertise(n)
      PROVE  rib' \in SUBSET rib
  <2>1. ASSUME NEW n \in Nodes, AgentStep(n)
        PROVE  rib' \in SUBSET rib
    BY <1>2, <2>1 DEF AgentStep, StartAgent, SendRegistration, ReceiveRefusal,
                      ReceiveLease, CallTimesOut, ConfigureAgent, Announce, CrashAgent,
                      StopAgent
  <2>2. ASSUME NEW s \in Slots,
               \/ CoreStep(s)
               \/ \E n \in Nodes : \/ TakeCall(s, n)
                                   \/ RemoveNode(s, n)
                                   \/ \E k \in Keys : TakeLateCall(s, n, k)
        PROVE  rib' \in SUBSET rib
    BY <2>2 DEF CoreStep, Accept, Refuse, Work, PathsFollowNeighbours, TakeCall,
                TakeLateCall, RemoveNode
  <2>3. ASSUME \/ \E n \in Nodes : HeartbeatArrives(n) \/ HeartbeatsStop(n)
               \/ \E p \in rib : HoldTimeOver(p)
               \/ Check
               \/ CoreProcessRestarts
               \/ UNCHANGED fleetVars
        PROVE  rib' \in SUBSET rib
    BY <2>3 DEF HeartbeatArrives, HeartbeatsStop, HoldTimeOver, Check,
                PathsFollowNeighbours, CoreProcessRestarts, fleetVars
  <2> QED
    BY <2>1, <2>2, <2>3 DEF FleetNext
<1>3. [Next]_vars
  BY FleetStepIsRegistryStep
<1> QED
  BY <1>1, <1>2, <1>3, RoutesStay

\* The tunnels lead to the lessees in the whole system, too (registry.go:295-309).
THEOREM FleetTunnelsLeadToLessees ==
    ASSUME RequestsOverlap = FALSE
    PROVE  FleetSpec => []TunnelLeadsToLessee
BY FleetRefinesRegistry, TunnelsLeadToLessees, PTL

\* With calm requests every path of the core is its lessee's, but for the two
\* cases RoutesAreTheLessees names, however late, repeated or lost the daemons'
\* calls and whoever crashes (registry.go:394-407).
THEOREM RoutesAreAlwaysTheLessees ==
    ASSUME RequestsOverlap = FALSE
    PROVE  FleetSpec => []RoutesAreTheLessees
<1>1. FleetSpec => [](PeerInv /\ NeighbourInv)
  BY FleetRefinesRegistry, PeersFollowTheRecords, NeighboursAreLeased, PTL
<1>2. FleetInv /\ LeaseInv /\ [FleetNext]_fleetVars => LeaseInv'
  BY LeaseStep
<1>3. RibHasNeighbours /\ [FleetNext]_fleetVars => RibHasNeighbours'
  BY RibFollows
<1>4. FleetInv /\ LeaseInv /\ PeerInv /\ NeighbourInv /\ RoutesAreTheLessees
      /\ RibHasNeighbours' /\ [FleetNext]_fleetVars => RoutesAreTheLessees'
  BY RoutesStep
<1>5. FleetInit => RibHasNeighbours /\ RoutesAreTheLessees
  BY DEF FleetInit, RibHasNeighbours, RoutesAreTheLessees
<1> QED
  BY LeaseInitInv, FleetInvariant, <1>1, <1>2, <1>3, <1>4, <1>5, PTL DEF FleetSpec

\* The whole system implements LeaseTable: whatever the network does with the
\* daemons' calls, an address and a sub-prefix are leased to one node at a time
\* and for as long as it stays registered (registry.go:263-290).
THEOREM FleetImplementsLeases ==
    ASSUME RequestsOverlap = FALSE
    PROVE  FleetSpec => RegistryLeases
BY FleetRefinesRegistry, RegistryImplementsLeases, PTL
=============================================================================
