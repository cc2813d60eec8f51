--------------------------- MODULE MCMeshDevices ----------------------------
(* A list that grows by two entries and a mesh of six nodes: options that fill it
   to its end, pass its end by one and by more, repeat nodes and name the root. *)
EXTENDS MeshDevices

CONSTANTS m1, m2, m3, m4, m5, m6
MCMac == {m1, m2, m3, m4, m5, m6}
Pairs == {<<m3>>, <<m2, m4>>, <<m5, m6>>}
Lists == Pairs \cup {<<>>, <<m1, m1>>, <<m3, m4, m5>>, <<m6, m1, m2, m5, m4>>}
MCPackets == [root : {m1, m2}, lists : {<<l>> : l \in Lists} \cup (Pairs \X Pairs)]
=============================================================================
