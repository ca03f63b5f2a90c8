----------------------------- MODULE Addressing -----------------------------
(***************************************************************************)
(* Where the numbered sub-prefixes of SubnetAllocator and the numbered     *)
(* addresses of WGIPAllocator come from: NewAllocator with carve           *)
(* (internal/subnet/allocator.go) and newWGIPAllocator                     *)
(* (internal/registry/registry.go), two loops over IPv4 addresses.         *)
(*                                                                         *)
(* An address is a number of AddrBits bits, and all arithmetic on it wraps *)
(* around; its last octet is its OctetBits lowest bits.  (32 and 8 in the  *)
(* code; smaller here, so that every network can be tried.)  A behaviour   *)
(* is one call of one of the two functions, one step per iteration.        *)
(***************************************************************************)
EXTENDS Naturals, Sequences, FiniteSets

CONSTANTS AddrBits, OctetBits

ASSUME WidthsAreNat == AddrBits \in Nat /\ OctetBits \in 1 .. AddrBits

VARIABLES
    pc,             \* the loop that runs, or how the call has ended
    net,            \* the network argument, [base |-> .., bits |-> ..]
    subnetBits,     \* NewAllocator's argument
    core,           \* newWGIPAllocator's argument: the core's own address
    at,             \* the loop variable: carve's i, newWGIPAllocator's ip
    result          \* the slice built so far: base addresses, or addresses

addrVars == <<pc, net, subnetBits, core, at, result>>

-----------------------------------------------------------------------------
\* The powers of two, 1 << n.
Pow2[n \in Nat] == IF n = 0 THEN 1 ELSE 2 * Pow2[n - 1]

Space     == Pow2[AddrBits]
Addresses == 0 .. Space - 1
Octet     == Pow2[OctetBits]

\* How many addresses a prefix of that length has, and its base address.
Size(bits)      == Pow2[AddrBits - bits]
Masked(a, bits) == a - (a % Size(bits))

\* net.ParseCIDR masks the address, so a network starts at its base.
Networks == {[base |-> Masked(a, b), bits |-> b] : a \in Addresses, b \in 0 .. AddrBits}

Contains(w, a) == Masked(a, w.bits) = w.base

AddrTypeOK ==
    /\ pc \in {"check", "carve", "scan", "refused", "carved", "scanned"}
    /\ net \in Networks
    /\ subnetBits \in 0 .. AddrBits + 1
    /\ core \in Addresses
    /\ at \in Addresses
    /\ result \in Seq(Addresses)

\* NewAllocator is called with any aggregate and any length, newWGIPAllocator
\* with any range but the whole space (which contains every successor of an
\* address: the scan would never leave it) and any address for the core.
AddrInit ==
    /\ net \in Networks
    /\ \/ /\ pc = "check"
          /\ subnetBits \in 0 .. AddrBits + 1
          /\ core = 0
          /\ at = 0
       \/ /\ pc = "scan"
          /\ net.bits > 0
          /\ subnetBits = 0
          /\ core \in Addresses
          /\ at = net.base
    /\ result = <<>>

-----------------------------------------------------------------------------
\* Faulty variants for the mutants.

\* carve's subnetSize counts from the wrong end of the address.
SubnetSizeOneBitShort(bits) == Size(bits + 1)

\* incrementIP does not carry out of the first byte.
IncrementNotWrapping(a) == IF a = Space - 1 THEN a ELSE a + 1

\* incrementIP counts on past the last address.
IncrementPastTheEnd(a) == a + 1

\* incrementIP does not carry from the last octet to the one before.
IncrementNotCarrying(a) == (a - (a % Octet)) + ((a + 1) % Octet)

\* newWGIPAllocator does not leave the core's address out.
SkippedButNotCore(a) == a % Octet \in {0, Octet - 1}

-----------------------------------------------------------------------------
(***************************************************************************)
(* NewAllocator and carve.  Sub-prefixes have at least four addresses.     *)
(***************************************************************************)
AcceptableBits == net.bits < subnetBits /\ subnetBits <= AddrBits - 2

RefuseBits ==
    /\ pc = "check"
    /\ ~ AcceptableBits
    /\ pc' = "refused"
    /\ UNCHANGED <<net, subnetBits, core, at, result>>

EnterCarve ==
    /\ pc = "check"
    /\ AcceptableBits
    /\ pc' = "carve"
    /\ UNCHANGED <<net, subnetBits, core, at, result>>

SubnetSize(bits) == Size(bits)

\* `for i := 0; i < count; i++`
CarveNext ==
    /\ pc = "carve"
    /\ LET count == Pow2[subnetBits - net.bits]
           ip    == (net.base + at * SubnetSize(subnetBits)) % Space
       IN  \/ /\ at < count
              /\ result' = Append(result, Masked(ip, subnetBits))
              /\ at' = at + 1
              /\ UNCHANGED pc
           \/ /\ at = count
              /\ pc' = "carved"
              /\ UNCHANGED <<at, result>>
    /\ UNCHANGED <<net, subnetBits, core>>

-----------------------------------------------------------------------------
(***************************************************************************)
(* newWGIPAllocator.                                                       *)
(***************************************************************************)

\* The carry runs through all bytes and out of the first one.
Increment(a) == (a + 1) % Space

\* "network/broadcast", judged by the last octet alone, and the core.
Skipped(a) == a % Octet \in {0, Octet - 1} \/ a = core

ScanNext ==
    /\ pc = "scan"
    /\ \/ /\ Contains(net, at)
          /\ result' = IF Skipped(at) THEN result ELSE Append(result, at)
          /\ at' = Increment(at)
          /\ UNCHANGED pc
       \/ /\ ~ Contains(net, at)
          /\ pc' = "scanned"
          /\ UNCHANGED <<at, result>>
    /\ UNCHANGED <<net, subnetBits, core>>

AddrNext == RefuseBits \/ EnterCarve \/ CarveNext \/ ScanNext

\* A loop that can go on does.
AddrSpec == AddrInit /\ [][AddrNext]_addrVars /\ WF_addrVars(AddrNext)

-----------------------------------------------------------------------------
\* Every address of the aggregate lies in exactly one sub-prefix and no other
\* address lies in any: two nodes' prefixes never overlap, and nothing of the
\* aggregate is wasted, at the ends of the address space either
\* (allocator.go:154-175).
AggregateIsPartitioned ==
    pc = "carved" =>
        \A a \in Addresses :
            Cardinality({i \in DOMAIN result :
                            Contains([base |-> result[i], bits |-> subnetBits], a)})
                = IF Contains(net, a) THEN 1 ELSE 0

\* The pool offers, each once, the addresses of the range that do not end in
\* the lowest or highest octet value, except the core's (registry.go:508-516):
\* in a range of whole octet blocks no node gets a network or broadcast
\* address, and none is missing.
PoolIsTheRange ==
    pc = "scanned" =>
        /\ \A i, j \in DOMAIN result : i < j => result[i] < result[j]
        /\ \A a \in Addresses :
             (\E i \in DOMAIN result : result[i] = a)
                <=> /\ Contains(net, a)
                    /\ a # core
                    /\ a \notin {Masked(a, AddrBits - OctetBits),
                                 Masked(a, AddrBits - OctetBits) + Octet - 1}

\* The end of the addresses that are behind the scan; the loop variable itself
\* starts again at 0 after the last address there is.
Scanned == IF at < net.base THEN Space ELSE at

\* A bound on the steps the call has yet to take.
StepsLeft == CASE pc = "check" -> Space + 1
               [] pc = "carve" -> Pow2[subnetBits - net.bits] - at + 1
               [] pc = "scan"  -> net.base + Size(net.bits) - Scanned + 1
               [] OTHER        -> 0

\* Every iteration brings the end nearer: no wrap-around of an address or of
\* the loop variable makes a loop start over (allocator.go:167,
\* registry.go:509, 553-560).
LoopsShrink ==
    [][StepsLeft' \in 0 .. StepsLeft - 1]_addrVars

\* Both loops end, for a range that reaches the last address there is too:
\* incrementing it wraps around to an address outside the range
\* (registry.go:509, 553-560).
LoopsEnd ==
    <>(pc \in {"refused", "carved", "scanned"})
=============================================================================
