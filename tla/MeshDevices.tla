---------------------------- MODULE MeshDevices -----------------------------
(***************************************************************************)
(* mesh/mesh_device.c: the root and the list of the other nodes of a mesh, *)
(* and mesh/mesh_none.c, which fills them from the topology packets that   *)
(* mesh/mesh_parser.c hands on.  mesh_device_del and the timers of the     *)
(* demonstration that read the list have no caller.                        *)
(***************************************************************************)
EXTENDS Integers, Sequences

CONSTANTS Mac,       \* hardware addresses
          None,      \* six bytes of zero
          Step,      \* MESH_DEV_STEP: entries that a list grows by: 10
          Packets    \* topology packets: root, and the lists of nodes in its options

ASSUME MeshAssumption ==
  /\ Step \in Nat \ {0}
  /\ Packets \subseteq [root : Mac, lists : Seq(Seq(Mac))]

VARIABLES
  g,        \* g_node_list: size, scale with the root, root, and the entries of list
  short,    \* history: memory was short for the last packet
  beyond    \* history: an entry was written behind the list; nothing is said after that

listVars == <<g, short, beyond>>

Empty == [size |-> 0, scale |-> 0, root |-> None, list |-> <<>>]

MeshInit == g = Empty /\ short = FALSE /\ beyond = FALSE

-----------------------------------------------------------------------------

\* Variant: a switch of the root keeps the list.
mesh_device_set_rootKeeps(l, root) == [l EXCEPT !.root = root, !.scale = IF @ = 0 THEN 1 ELSE @]

\* A new root makes the list stale.
mesh_device_set_root(l, root) ==
  IF l.scale # 0 /\ l.root = root THEN l ELSE [Empty EXCEPT !.root = root, !.scale = 1]

\* Variant: the root is not compared with.
mesh_search_deviceNoRoot(l, node) == \E i \in 1 .. l.scale - 1 : l.list[i] = node

mesh_search_device(l, node) == l.scale # 0 /\ (l.root = node \/ \E i \in 1 .. l.scale - 1 : l.list[i] = node)

\* Entries that are free before the list has to grow.
Rest(l) == IF l.size = 0 THEN 0 ELSE l.size + 1 - l.scale

\* Variant: by one entry.
GrownByOne(l) == l.size + Rest(l) + 1

\* The new size does not depend on how many entries are wanted.
Grown(l) == l.size + Rest(l) + Step

Resized(l, size) ==
  [l EXCEPT !.size = size, !.list = [i \in 1 .. size |-> IF i < l.scale THEN l.list[i] ELSE None]]

\* One round of the loop; l.scale - 1 is the index from 0 that is written.
Put(l, node) ==
  IF mesh_search_device(l, node) THEN l
  ELSE [l EXCEPT !.scale = @ + 1,
                 !.list = IF l.scale <= l.size THEN [@ EXCEPT ![l.scale] = node] ELSE Append(@, node)]

\* What a call leaves if there is memory for a larger list, when it needs one.
mesh_device_add(l, nodes) ==
  LET after[k \in 0 .. Len(nodes)] ==
        IF k = 0 THEN IF Rest(l) < Len(nodes) THEN Resized(l, Grown(l)) ELSE l
        ELSE Put(after[k - 1], nodes[k])
  IN after[Len(nodes)]

Behind(l) == Len(l.list) > l.size

\* The options one after the other; the call for an option in fail finds no memory if
\* it needs any.
AddAll(l, lists, fail) ==
  LET after[k \in 0 .. Len(lists)] ==
        IF k = 0 THEN l
        ELSE IF Behind(after[k - 1]) \/ (k \in fail /\ Rest(after[k - 1]) < Len(lists[k])) THEN after[k - 1]
        ELSE mesh_device_add(after[k - 1], lists[k])
  IN after[Len(lists)]

mesh_none_proto_parser(p) == \E fail \in SUBSET DOMAIN p.lists :
  LET after == AddAll(mesh_device_set_root(g, p.root), p.lists, fail)
  IN /\ ~beyond
     /\ beyond' = Behind(after)
     /\ IF Behind(after) THEN UNCHANGED <<g, short>>
        ELSE g' = after /\ short' = (fail # {})

MeshNext == \E p \in Packets : mesh_none_proto_parser(p)

MeshSpec == MeshInit /\ [][MeshNext]_listVars

-----------------------------------------------------------------------------

Known == {g.list[i] : i \in 1 .. g.scale - 1}

Nodes == INSTANCE MeshNodes WITH root <- g.root, nodes <- Known

\* The root and the nodes are those that the packets of this root have named, however
\* they were split into options and whatever the list grew: nothing is lost but whole
\* options for want of memory, and nothing of an earlier root stays
\* (mesh_device.c:117-219, mesh_none.c:53-60).
NamesTheMesh == Nodes!Spec

\* The number that mesh_device_get_mac_list gives is that of the nodes: each is in the
\* list once, never the root, and all within the memory of the list, through every
\* growth and however often packets repeat a node (mesh_device.c:51-72, 192-215).
ListsEachOnce ==
  /\ Len(g.list) = g.size
  /\ g.scale <= g.size + 1
  /\ g.root \notin Known
  /\ \A i, j \in 1 .. g.scale - 1 : g.list[i] = g.list[j] => i = j

SmallPackets == {p \in Packets : \A k \in DOMAIN p.lists : Len(p.lists[k]) <= Step}

\* Options of at most Step nodes never write behind the list: the growth by a
\* constant (mesh_device.c:192) is enough for them, though not for any longer one.
GrowsEnough == [][beyond' => \A p \in SmallPackets : ~mesh_none_proto_parser(p)]_listVars
=============================================================================
