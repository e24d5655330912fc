--------------------------- MODULE NodePublication ---------------------------
(***************************************************************************)
(* What a node promises the rest of the cluster about its local disks.     *)
(*                                                                         *)
(* The webhook selects a node by its has-uuid-<UUID> label, the            *)
(* provisioner reads the path of a disk in the disk-map annotation.  Both  *)
(* rely on the promise stated here and on nothing else of the scanner: a   *)
(* publication only names mounts the node has made since it booted, it is  *)
(* written in one step together with the labels that cover it, and it is   *)
(* otherwise left alone until somebody recreates the Node object.          *)
(***************************************************************************)
EXTENDS FiniteSets

CONSTANTS
    UUIDs,      \* filesystem UUIDs; the directory of a disk is named by one
    NoUUID      \* not in UUIDs: the value of a key the annotation does not have

VARIABLES
    held,       \* pairs <<uuid, path>>: filesystems mounted since the last boot
    labels,     \* UUIDs u with label agent.cubbit.io/has-uuid-<u> on the Node
    annotation, \* the disk-map annotation: UUID -> path, or NoUUID
    published   \* has the annotation been written since the node booted?

vars == <<held, labels, annotation, published>>

DiskMaps == [UUIDs -> UUIDs \cup {NoUUID}]

EmptyMap == [u \in UUIDs |-> NoUUID]

\* The disks a map has an entry for.
Keys(map) == {u \in UUIDs : map[u] # NoUUID}

\* The entries of a map, as pairs.
Graph(map) == {<<u, map[u]>> : u \in Keys(map)}

-----------------------------------------------------------------------------

Init ==
    /\ held = {}
    /\ labels = {}
    /\ annotation = EmptyMap
    /\ published = FALSE

\* A filesystem is mounted at a path that had nothing mounted on it.
Hold(u, path) ==
    /\ \A pair \in held : pair[2] # path
    /\ held' = held \cup {<<u, path>>}
    /\ UNCHANGED <<labels, annotation, published>>

\* The scanner writes a map of mounts it holds, with a label for every entry.
Publish(map) ==
    /\ annotation' = map
    /\ Graph(map) \subseteq held
    /\ labels' = labels \cup Keys(map)
    /\ published' = TRUE
    /\ UNCHANGED held

\* The machine reboots: every mount is gone, the Node object is not.
Reboot ==
    /\ held' = {}
    /\ published' = FALSE
    /\ UNCHANGED <<labels, annotation>>

\* The Node object is deleted and registered again by the kubelet.
Recreate ==
    /\ labels' = {}
    /\ annotation' = EmptyMap
    /\ UNCHANGED <<held, published>>

Next ==
    \/ \E u \in UUIDs, path \in UUIDs : Hold(u, path)
    \/ \E map \in DiskMaps : Publish(map)
    \/ Reboot
    \/ Recreate

Spec == Init /\ [][Next]_vars
=============================================================================
