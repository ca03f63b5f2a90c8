------------------------------- MODULE NodeIDs -------------------------------
(***************************************************************************)
(* The vocabulary shared by the allocators and the registry: the edge      *)
(* nodes that may ever contact the core, and the value that stands for     *)
(* Go's empty string, nil pointer or missing map entry.                    *)
(***************************************************************************)

CONSTANTS
    Nodes,      \* node identifiers (the strings of RegisterRequest.NodeID)
    None        \* "no node", "no address", "no key"

ASSUME NoneIsNoNode == None \notin Nodes
=============================================================================
