------------------------------- MODULE Agent -------------------------------
(***************************************************************************)
(* The daemon of an edge node (cmd/agent/main.go), one per node: it asks   *)
(* the core for a lease until it gets one or has tried often enough,       *)
(* configures its end of the tunnel and its BGP speaker with the answer,   *)
(* announces its sub-prefix, and sends heartbeats until it is stopped.     *)
(*                                                                         *)
(* Each daemon is a straight line: run() takes the next step or returns an *)
(* error, and the service manager (Restart=on-failure) then starts it      *)
(* again.  Nothing it learned survives the process; its key does only if   *)
(* it is in the configuration file.                                        *)
(*                                                                         *)
(* These are the daemon's own variables and what its steps do to them; the *)
(* network and the core on the other side are in module Fleet.             *)
(***************************************************************************)
EXTENDS NodeIDs, Naturals

CONSTANT MaxAttempts        \* registration attempts of one process (10)

ASSUME MaxAttemptsIsPositive == MaxAttempts \in Nat \ {0}

VARIABLES
    phase,                  \* where run() of the node's daemon is
    myKey,                  \* the WireGuard key of the running process
    attempt,                \* registration attempts that have failed
    told                    \* the lease in regResp, Untold before there is one

agentVars == <<phase, myKey, attempt, told>>

\* A lease as RegisterResponse carries it.
Lease(ip, subnet) == [ip |-> ip, subnet |-> subnet]
Untold == Lease(None, None)

Phases == {"stopped",       \* not started, or ended with exit status 0
           "failed",        \* ended with an error
           "registering",   \* registerWithRetry, before an attempt
           "calling",       \* in doRegister's client.Do
           "configuring",   \* has the answer
           "waiting",       \* tunnel and speaker configured: waitForWGTunnel
           "running"}       \* announced its route; heartbeats

SpeakerUp(n)   == phase[n] \in {"waiting", "running"}
Alive(n)       == phase[n] \notin {"stopped", "failed"}

AgentInit ==
    /\ phase = [n \in Nodes |-> "stopped"]
    /\ myKey = [n \in Nodes |-> None]
    /\ attempt = [n \in Nodes |-> 0]
    /\ told = [n \in Nodes |-> Untold]

-----------------------------------------------------------------------------
\* Faulty variants for the mutants.

\* The loop of registerWithRetry runs to `attempt <= maxAttempts`.
AttemptFailedOnceMore(n) ==
    /\ phase[n] = "calling"
    /\ \/ /\ attempt[n] < MaxAttempts
          /\ phase' = [phase EXCEPT ![n] = "registering"]
          /\ attempt' = [attempt EXCEPT ![n] = @ + 1]
       \/ /\ attempt[n] = MaxAttempts
          /\ phase' = [phase EXCEPT ![n] = "failed"]
          /\ attempt' = [attempt EXCEPT ![n] = 0]
    /\ UNCHANGED <<myKey, told>>
-----------------------------------------------------------------------------
(***************************************************************************)
(* The steps of run().                                                     *)
(***************************************************************************)

\* The process starts and has key k, configured or just generated.
Launch(n, k) ==
    /\ ~ Alive(n)
    /\ phase' = [phase EXCEPT ![n] = "registering"]
    /\ myKey' = [myKey EXCEPT ![n] = k]
    /\ UNCHANGED <<attempt, told>>

\* doRegister sends the request.
CallCore(n) ==
    /\ phase[n] = "registering"
    /\ phase' = [phase EXCEPT ![n] = "calling"]
    /\ UNCHANGED <<myKey, attempt, told>>

\* It returns an error.  After the back-off registerWithRetry tries again, or
\* gives up and the process ends.
AttemptFailed(n) ==
    /\ phase[n] = "calling"
    /\ \/ /\ attempt[n] + 1 < MaxAttempts
          /\ phase' = [phase EXCEPT ![n] = "registering"]
          /\ attempt' = [attempt EXCEPT ![n] = @ + 1]
       \/ /\ attempt[n] + 1 = MaxAttempts
          /\ phase' = [phase EXCEPT ![n] = "failed"]
          /\ attempt' = [attempt EXCEPT ![n] = 0]
    /\ UNCHANGED <<myKey, told>>

\* It returns the core's answer.
Registered200(n, lease) ==
    /\ phase[n] = "calling"
    /\ phase' = [phase EXCEPT ![n] = "configuring"]
    /\ attempt' = [attempt EXCEPT ![n] = 0]
    /\ told' = [told EXCEPT ![n] = lease]
    /\ UNCHANGED myKey

\* Setup, the core as WireGuard peer, the speaker, the core as neighbour.
Configure(n) ==
    /\ phase[n] = "configuring"
    /\ phase' = [phase EXCEPT ![n] = "waiting"]
    /\ UNCHANGED <<myKey, attempt, told>>

\* waitForWGTunnel returns, with the tunnel up or after 30 s without it; the
\* sub-prefix is announced in both cases.
AnnounceRoute(n) ==
    /\ phase[n] = "waiting"
    /\ phase' = [phase EXCEPT ![n] = "running"]
    /\ UNCHANGED <<myKey, attempt, told>>

\* The process ends: with next "failed" when run() returns an error or it is
\* killed, with "stopped" after an operator's signal or the speaker's end.
End(n, next) ==
    /\ Alive(n)
    /\ phase' = [phase EXCEPT ![n] = next]
    /\ attempt' = [attempt EXCEPT ![n] = 0]
    /\ told' = [told EXCEPT ![n] = Untold]
    /\ UNCHANGED myKey
=============================================================================
