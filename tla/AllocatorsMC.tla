---------------------------- MODULE AllocatorsMC ----------------------------
(***************************************************************************)
(* The allocators from their construction on.  A behaviour is one call of  *)
(* NewAllocator or newWGIPAllocator, iteration by iteration, and then the  *)
(* calls of the allocator it built, when that has as many sub-prefixes or  *)
(* addresses as the instance says.  The two share nothing, so there is     *)
(* nothing to interleave between them.  Operators also assign sub-prefixes *)
(* by name here, which the registry never does.                            *)
(***************************************************************************)
EXTENDS SubnetAllocator, WGIPAllocator, Addressing

AllocatorsInit == AddrInit /\ SubnetInit /\ WGIPInit

SubnetCall ==
    /\ pc = "carved"
    /\ Len(result) = NumSubnets
    /\ SubnetNext
    /\ UNCHANGED <<addrVars, wgipVars>>

WGIPCall ==
    /\ pc = "scanned"
    /\ Len(result) = NumIPs
    /\ WGIPNext
    /\ UNCHANGED <<addrVars, subnets>>

AllocatorsNext ==
    \/ AddrNext /\ UNCHANGED <<subnets, wgipVars>>
    \/ SubnetCall
    \/ WGIPCall

\* A loop that can go on does; nobody has to call an allocator.
AllocatorsSpec ==
    /\ AllocatorsInit
    /\ [][AllocatorsNext]_<<addrVars, subnets, wgipVars>>
    /\ WF_addrVars(AddrNext)
=============================================================================
