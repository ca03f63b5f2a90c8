----------------------------- MODULE LeaseTable -----------------------------
(***************************************************************************)
(* What the registry promises the nodes, seen from the outside: a          *)
(* registered node holds a lease on one tunnel address and one sub-prefix; *)
(* no other node holds either; and the lease does not change until the     *)
(* node is removed (or the core, which keeps no state on disk, restarts).  *)
(***************************************************************************)
EXTENDS NodeIDs

CONSTANTS
    Addresses,      \* the tunnel addresses there are
    Prefixes        \* the sub-prefixes there are

VARIABLE lease      \* lease[n] = [ip |-> .., subnet |-> ..], both None without one

NoLease == [ip |-> None, subnet |-> None]

LeaseInit == lease = [n \in Nodes |-> NoLease]

\* An unregistered node is given an address and a sub-prefix nobody leases.
Grant(n) ==
    /\ lease[n] = NoLease
    /\ \E a \in Addresses, p \in Prefixes :
         /\ \A m \in Nodes : lease[m].ip # a /\ lease[m].subnet # p
         /\ lease' = [lease EXCEPT ![n] = [ip |-> a, subnet |-> p]]

\* A node is removed.
Revoke(n) == lease' = [lease EXCEPT ![n] = NoLease]

\* The core restarts with an empty registry.
RevokeAll == lease' = [n \in Nodes |-> NoLease]

LeaseNext == RevokeAll \/ \E n \in Nodes : Grant(n) \/ Revoke(n)

LeaseSpec == LeaseInit /\ [][LeaseNext]_lease
=============================================================================
