----------------------------- MODULE MeshNodes ------------------------------
(***************************************************************************)
(* What mesh/mesh_device.c promises: the root of the mesh and the set of   *)
(* the other nodes that the topology packets of this root have named.  A   *)
(* packet is the address of its root and the lists of nodes in it; when    *)
(* memory is short, whole lists of it may be missing.                      *)
(***************************************************************************)
EXTENDS Sequences, Functions

CONSTANTS None,      \* no root yet
          Packets    \* topology packets: root and lists

VARIABLES root, nodes,
          short      \* memory was short for the last packet

Init == root = None /\ nodes = {} /\ short = FALSE

Named(lists, K) == UNION {Range(lists[k]) : k \in K}

Report(p) ==
  /\ root' = p.root
  /\ short' \in BOOLEAN
  /\ \E K \in SUBSET DOMAIN p.lists :
       /\ ~short' => K = DOMAIN p.lists
       /\ nodes' = ((IF p.root = root THEN nodes ELSE {}) \cup Named(p.lists, K)) \ {p.root}

Next == \E p \in Packets : Report(p)

Spec == Init /\ [][Next]_<<root, nodes, short>>
=============================================================================
