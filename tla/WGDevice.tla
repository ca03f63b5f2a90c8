------------------------------ MODULE WGDevice ------------------------------
(***************************************************************************)
(* The core's WireGuard interface as internal/wireguard/manager.go drives  *)
(* it: the peers the kernel knows and the prefixes it sends to each        *)
(* ("cryptokey routing").  The kernel keeps a prefix with one peer only:   *)
(* giving it to a peer takes it from whichever peer had it.                *)
(***************************************************************************)
EXTENDS NodeIDs

CONSTANT Keys               \* WireGuard public keys

VARIABLES
    wgPeers,                \* the keys configured on the interface
    allowedIPs              \* allowedIPs[k]: the prefixes routed to peer k

wgVars == <<wgPeers, allowedIPs>>

\* The interface before the first peer.  Setup does not clear it afterwards
\* (ReplacePeers: false), so a restart of the core finds its old peers.
WGInit == wgPeers = {} /\ allowedIPs = [k \in Keys |-> {}]

-----------------------------------------------------------------------------
\* Faulty variants for the mutants.

\* AddPeer with ReplaceAllowedIPs: false.
AddWGPeerKeepingAllowedIPs(k, prefixes) ==
    /\ wgPeers' = wgPeers \cup {k}
    /\ allowedIPs' = [j \in Keys |-> IF j = k THEN allowedIPs[j] \cup prefixes
                                              ELSE allowedIPs[j] \ prefixes]

\* AddPeer with ReplacePeers: true.
AddWGPeerReplacingPeers(k, prefixes) ==
    /\ wgPeers' = {k}
    /\ allowedIPs' = [j \in Keys |-> IF j = k THEN prefixes ELSE {}]
-----------------------------------------------------------------------------
\* Manager.AddPeer, with ReplaceAllowedIPs: true.
AddWGPeer(k, prefixes) ==
    /\ wgPeers' = wgPeers \cup {k}
    /\ allowedIPs' = [j \in Keys |-> IF j = k THEN prefixes
                                              ELSE allowedIPs[j] \ prefixes]

\* Manager.RemovePeer; the kernel accepts the removal of a key it lacks.
RemoveWGPeer(k) ==
    /\ wgPeers' = wgPeers \ {k}
    /\ allowedIPs' = [allowedIPs EXCEPT ![k] = {}]
=============================================================================
