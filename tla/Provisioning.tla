---------------------------- MODULE Provisioning ----------------------------
(***************************************************************************)
(* From a published disk to a running pod: the admission webhook pins a    *)
(* pod to the node with its disk, the scheduler selects that node for the  *)
(* pod's claims, the provisioner turns the node's disk map into a volume.  *)
(*                                                                         *)
(* Each of them looks at the Node at another time and in another way: the  *)
(* webhook at labels in an informer cache, the provisioner at the live     *)
(* annotation, the kubelet at the directory itself.  Nodes do what         *)
(* NodePublication promises, and disks move between them.                  *)
(*                                                                         *)
(* Scheduler, volume controller, kubelet and the controller library around *)
(* Provision are not part of the repository: they do what the code relies  *)
(* on, in any order and as late as they like.                              *)
(***************************************************************************)
EXTENDS Naturals, Sequences, FiniteSets

CONSTANTS
    Nodes, NoNode,      \* nodes, and "none selected"
    UUIDs, NoUUID,      \* disks by UUID, and a claim without the annotation
    InitialHosts,       \* where the disks may be at the start
    Claims, Absent,     \* names of claims, and what a lister says of a name it misses
    Pods,               \* names of pods
    PodClaims,          \* the claims in a pod's volumes, in order
    MayAsk,             \* the UUIDs a user may ask for in a claim, by name
    Replicas,           \* webhook replicas, each with informer caches of its own
    Workers,            \* goroutines of the provisioner that run Provision
    MaxId,              \* how often a claim is created: a bound of the model
    FaultKinds,         \* the faults and disturbances that may happen
    MaxFaults           \* and how many of them: a bound of the model

ASSUME NodesAssumption == NoNode \notin Nodes
ASSUME UUIDsAssumption == NoUUID \notin UUIDs
ASSUME HostsAssumption == InitialHosts \subseteq [UUIDs -> Nodes]
ASSUME AbsentAssumption == Absent \notin UUIDs \cup {NoUUID}
ASSUME PodClaimsAssumption == PodClaims \in [Pods -> Seq(Claims)]
ASSUME MayAskAssumption == MayAsk \in [Claims -> SUBSET (UUIDs \cup {NoUUID})]
ASSUME BoundsAssumption == MaxId \in Nat /\ MaxFaults \in Nat

VARIABLES
    \* the nodes
    host,       \* the node each disk is plugged into
    held,       \* by node: <<uuid, path>> of the filesystems mounted
    dead,       \* by node: those of them whose disk was pulled out
    labels,     \* by node: UUIDs with a has-uuid label
    annotation, \* by node: the disk map, UUID -> path or NoUUID
    published,  \* by node: has it been patched since the node booted?
    \* claims and volumes
    live,       \* the claims that exist
    claim,      \* by name: UID, disk-uuid annotation, selected-node annotation
    volumes,    \* PersistentVolumes of the provisioner, with their claimRef
    \* the webhook
    seenClaims, \* by replica and name: the annotation in the PVC cache, or Absent
    seenLabels, \* by replica and node: the labels in the Node cache
    \* pods
    pod,        \* by name: where it is on its way, its selector and its node
    \* the provisioner
    job,        \* by worker: the Provision call it is in
    \* history and bounds
    offered,    \* every <<node, uuid, path>> ever published
    faults

nodes == <<host, held, dead, labels, annotation, published, offered>>
claims == <<live, claim>>
caches == <<seenClaims, seenLabels>>
vars == <<nodes, claims, volumes, caches, pod, job, faults>>

EmptyMap == [u \in UUIDs |-> NoUUID]
Keys(map) == {u \in UUIDs : map[u] # NoUUID}
Graph(map) == {<<u, map[u]>> : u \in Keys(map)}

NoPod == [phase |-> "absent", by |-> Absent, uuid |-> NoUUID,
          selector |-> NoNode, node |-> NoNode, onDisk |-> FALSE]
NoJob == [claim |-> Absent, id |-> 0, uuid |-> NoUUID, node |-> NoNode, path |-> NoUUID]

Fault(k) ==
    /\ k \in FaultKinds
    /\ faults < MaxFaults
    /\ faults' = faults + 1

NoFault == UNCHANGED faults

ClaimsOf(p) == {PodClaims[p][i] : i \in DOMAIN PodClaims[p]}

\* The volumes bound to the claim that has this name now: claimRef is by UID.
VolumesOf(c) == {v \in volumes : c \in live /\ v.claim = c /\ v.id = claim[c].id}

Bound(c) == VolumesOf(c) # {}

Init ==
    /\ host \in InitialHosts
    /\ held = [n \in Nodes |-> {}]
    /\ dead = [n \in Nodes |-> {}]
    /\ labels = [n \in Nodes |-> {}]
    /\ annotation = [n \in Nodes |-> EmptyMap]
    /\ published = [n \in Nodes |-> FALSE]
    /\ offered = {}
    /\ live = {}
    /\ claim = [c \in Claims |-> [id |-> 0, uuid |-> NoUUID, node |-> NoNode]]
    /\ volumes = {}
    /\ seenClaims = [r \in Replicas |-> [c \in Claims |-> Absent]]
    /\ seenLabels = [r \in Replicas |-> [n \in Nodes |-> {}]]
    /\ pod = [p \in Pods |-> NoPod]
    /\ job = [w \in Workers |-> NoJob]
    /\ faults = 0

-----------------------------------------------------------------------------
(***************************************************************************)
(* The nodes, written from NodePublication: its steps, for disks that are  *)
(* in one node at a time, and with what takes a fault counted as one.      *)
(***************************************************************************)

\* The scanner mounts a disk of its node.  At another disk's directory only
\* if a kernel name changed hands in between.
Hold(n, u, path) ==
    /\ host[u] = n
    /\ \A pair \in held[n] : pair[2] # path
    /\ IF path = u THEN NoFault ELSE Fault("swap")
    /\ held' = [held EXCEPT ![n] = @ \cup {<<u, path>>}]
    /\ UNCHANGED <<host, dead, labels, annotation, published, offered, claims, volumes, caches, pod, job>>

LiveMounts(n) == held[n] \ dead[n]

\* What a scan without read errors finds: all mounts whose disk is there.
ScannedMap(n) ==
    [u \in UUIDs |->
        IF \E path \in UUIDs : <<u, path>> \in LiveMounts(n)
        THEN CHOOSE path \in UUIDs : <<u, path>> \in LiveMounts(n)
        ELSE NoUUID]

\* The patch adds the label of every disk it lists.
PatchedLabels(n, map) == labels[n] \cup Keys(map)

\* The scanner patches the Node.
Publish(n, map) ==
    /\ Graph(map) \subseteq held[n]
    /\ IF map = ScannedMap(n) THEN NoFault ELSE Fault("read")
    /\ annotation' = [annotation EXCEPT ![n] = map]
    /\ labels' = [labels EXCEPT ![n] = PatchedLabels(n, map)]
    /\ published' = [published EXCEPT ![n] = TRUE]
    /\ offered' = offered \cup {<<n, u, map[u]>> : u \in Keys(map)}
    /\ UNCHANGED <<host, held, dead, claims, volumes, caches, pod, job>>

\* A disk is pulled out and plugged into another node; its mount stays, dead.
MoveDisk(u, n) ==
    /\ host[u] # n
    /\ Fault("move")
    /\ host' = [host EXCEPT ![u] = n]
    /\ dead' = [dead EXCEPT ![host[u]] = {pair \in held[host[u]] : pair[1] = u \/ pair \in dead[host[u]]}]
    /\ UNCHANGED <<held, labels, annotation, published, offered, claims, volumes, caches, pod, job>>

\* The machine reboots: no mounts.  Its pods stay bound to it and the kubelet
\* starts their containers again.
Reboot(n) ==
    /\ Fault("reboot")
    /\ held' = [held EXCEPT ![n] = {}]
    /\ dead' = [dead EXCEPT ![n] = {}]
    /\ published' = [published EXCEPT ![n] = FALSE]
    /\ pod' = [p \in Pods |->
                  IF pod[p].node = n /\ pod[p].phase = "running"
                  THEN [pod[p] EXCEPT !.phase = "bound", !.onDisk = FALSE]
                  ELSE pod[p]]
    /\ UNCHANGED <<host, labels, annotation, offered, claims, volumes, caches, job>>

\* The Node object is deleted and registered again.
Recreate(n) ==
    /\ Fault("recreate")
    /\ labels' = [labels EXCEPT ![n] = {}]
    /\ annotation' = [annotation EXCEPT ![n] = EmptyMap]
    /\ UNCHANGED <<host, held, dead, published, offered, claims, volumes, caches, pod, job>>

-----------------------------------------------------------------------------
(***************************************************************************)
(* Users and their claims.                                                 *)
(***************************************************************************)

CreateClaim(c, u) ==
    /\ c \notin live
    /\ u \in MayAsk[c]
    /\ claim[c].id < MaxId
    /\ live' = live \cup {c}
    /\ claim' = [claim EXCEPT ![c] = [id |-> @.id + 1, uuid |-> u, node |-> NoNode]]
    /\ NoFault
    /\ UNCHANGED <<nodes, volumes, caches, pod, job>>

IsStored(p) == pod[p].phase \notin {"absent", "admitting"}

\* The claims are deleted.
WithoutClaims(gone) ==
    /\ live' = live \ gone
    /\ claim' = [c \in Claims |->
                    IF c \in gone THEN [id |-> claim[c].id, uuid |-> NoUUID, node |-> NoNode]
                    ELSE claim[c]]

\* A claim stays as long as a pod uses it.
DeleteClaim(c) ==
    /\ c \in live
    /\ \A p \in Pods : c \in ClaimsOf(p) => ~IsStored(p)
    /\ Fault("delete")
    /\ WithoutClaims({c})
    /\ UNCHANGED <<nodes, volumes, caches, pod, job>>

\* A pod is deleted, and with it claims whose deletion waited for it only.
DeletePod(p, gone) ==
    /\ IsStored(p)
    /\ gone \subseteq ClaimsOf(p) \cap live
    /\ \A q \in Pods \ {p} : IsStored(q) => gone \cap ClaimsOf(q) = {}
    /\ Fault("delete")
    /\ WithoutClaims(gone)
    /\ pod' = [pod EXCEPT ![p] = NoPod]
    /\ UNCHANGED <<nodes, volumes, caches, job>>

\* The volume of a claim that is gone is deleted: by an administrator (Retain)
\* or through Delete, which touches nothing else.
DeleteVolume(v) ==
    /\ v \in volumes
    /\ v \notin VolumesOf(v.claim)
    /\ volumes' = volumes \ {v}
    /\ NoFault
    /\ UNCHANGED <<nodes, claims, caches, pod, job>>

-----------------------------------------------------------------------------
(***************************************************************************)
(* The webhook.                                                            *)
(***************************************************************************)

\* The informers of a replica catch up with one object.
SyncClaim(r, c) ==
    /\ seenClaims' = [seenClaims EXCEPT ![r][c] = IF c \in live THEN claim[c].uuid ELSE Absent]
    /\ NoFault
    /\ UNCHANGED <<nodes, claims, volumes, seenLabels, pod, job>>

SyncNode(r, n) ==
    /\ seenLabels' = [seenLabels EXCEPT ![r][n] = labels[n]]
    /\ NoFault
    /\ UNCHANGED <<nodes, claims, volumes, seenClaims, pod, job>>

\* The annotation of a claim: from the cache, or live when the cache misses.
Resolve(r, c) ==
    IF seenClaims[r][c] # Absent THEN seenClaims[r][c]
    ELSE IF c \in live THEN claim[c].uuid ELSE Absent

\* diskUUIDForPod: the first volume whose claim has the annotation, or cannot
\* be found, decides.
DiskUUIDForPod(r, p) ==
    LET answer == [i \in DOMAIN PodClaims[p] |-> Resolve(r, PodClaims[p][i])]
        decides(i) == answer[i] # NoUUID /\ \A j \in 1..(i - 1) : answer[j] = NoUUID
    IN  IF \E i \in DOMAIN answer : decides(i)
        THEN answer[CHOOSE i \in DOMAIN answer : decides(i)]
        ELSE NoUUID

\* A mutant: a node with any disk will do.
NodesForUUIDAnyLabel(r, u) == {n \in Nodes : seenLabels[r][n] # {}}

\* A mutant: the labels are compared as a whole instead of one selected.
NodesForUUIDOnly(r, u) == {n \in Nodes : seenLabels[r][n] = {u}}

\* findNodeForUUID: the first node of a list in no particular order.
NodesForUUID(r, u) == {n \in Nodes : u \in seenLabels[r][n]}

\* A pod stored by the API server, with the selector it was admitted with.
Stored(selector) == [NoPod EXCEPT !.phase = "pending", !.selector = selector]

\* A pod is to be created and a replica reads its claims.  One that cannot be
\* found has the pod denied, which leaves no trace.
AdmitRead(p, r) ==
    /\ pod[p] = NoPod
    /\ LET uuid == DiskUUIDForPod(r, p) IN
          /\ uuid # Absent
          /\ pod' = [pod EXCEPT ![p] =
                        IF uuid = NoUUID THEN Stored(NoNode)
                        ELSE [NoPod EXCEPT !.phase = "admitting", !.by = r, !.uuid = uuid]]
    /\ NoFault
    /\ UNCHANGED <<nodes, claims, volumes, caches, job>>

\* The selector is set, whatever was there before.
AdmitPinned(p, n) ==
    /\ pod[p].phase = "admitting"
    /\ n \in NodesForUUID(pod[p].by, pod[p].uuid)
    /\ pod' = [pod EXCEPT ![p] = Stored(n)]
    /\ NoFault
    /\ UNCHANGED <<nodes, claims, volumes, caches, job>>

\* No node has the label: the pod is denied, and its controller tries again.
Deny(p) ==
    /\ pod[p].phase = "admitting"
    /\ NodesForUUID(pod[p].by, pod[p].uuid) = {}
    /\ pod' = [pod EXCEPT ![p] = NoPod]
    /\ NoFault
    /\ UNCHANGED <<nodes, claims, volumes, caches, job>>

\* The webhook does not serve yet and the API server ignores the failure.
AdmitUnseen(p) ==
    /\ pod[p] = NoPod
    /\ Fault("unseen")
    /\ pod' = [pod EXCEPT ![p] = Stored(NoNode)]
    /\ UNCHANGED <<nodes, claims, volumes, caches, job>>

-----------------------------------------------------------------------------
(***************************************************************************)
(* Scheduler and kubelet.                                                  *)
(***************************************************************************)

\* May the claim be used on the node?  If bound, its volume must be there.
Fits(c, n) ==
    /\ c \in live
    /\ IF Bound(c) THEN \E v \in VolumesOf(c) : v.node = n
                   ELSE claim[c].node \in {NoNode, n}

\* The scheduler chooses a node and selects it for the claims without volume.
Schedule(p, n) ==
    /\ pod[p].phase = "pending"
    /\ pod[p].selector \in {NoNode, n}
    /\ \A c \in ClaimsOf(p) : Fits(c, n)
    /\ pod' = [pod EXCEPT ![p] = [@ EXCEPT !.phase = "reserved", !.node = n]]
    /\ claim' = [c \in Claims |-> IF c \in ClaimsOf(p) /\ ~Bound(c)
                                  THEN [claim[c] EXCEPT !.node = n] ELSE claim[c]]
    /\ NoFault
    /\ UNCHANGED <<nodes, live, volumes, caches, job>>

\* A claim of the pod can no longer be had on the node, or not yet.
Unreserve(p) ==
    /\ pod[p].phase = "reserved"
    /\ \E c \in ClaimsOf(p) :
          ~Fits(c, pod[p].node) \/ (~Bound(c) /\ claim[c].node = NoNode)
    /\ pod' = [pod EXCEPT ![p] = [@ EXCEPT !.phase = "pending", !.node = NoNode]]
    /\ NoFault
    /\ UNCHANGED <<nodes, claims, volumes, caches, job>>

\* All claims have their volume on the node.
BindPod(p) ==
    /\ pod[p].phase = "reserved"
    /\ \A c \in ClaimsOf(p) : Bound(c) /\ Fits(c, pod[p].node)
    /\ pod' = [pod EXCEPT ![p] = [@ EXCEPT !.phase = "bound"]]
    /\ NoFault
    /\ UNCHANGED <<nodes, claims, volumes, caches, job>>

\* The kubelet starts the pod on the directories of its volumes as they are:
\* it does not ask whether a disk is mounted there.
StartPod(p) ==
    /\ pod[p].phase = "bound"
    /\ LET n == pod[p].node IN
          pod' = [pod EXCEPT ![p] = [@ EXCEPT !.phase = "running",
                     !.onDisk = \A c \in ClaimsOf(p) :
                                   \E v \in VolumesOf(c) : <<v.uuid, v.path>> \in held[n]]]
    /\ NoFault
    /\ UNCHANGED <<nodes, claims, volumes, caches, job>>

-----------------------------------------------------------------------------
(***************************************************************************)
(* The provisioner.                                                        *)
(***************************************************************************)

\* Provision is called for a claim that has a selected node and no volume.  A
\* claim without the UUID annotation is refused at once: nothing changes.
CallProvision(w, c) ==
    /\ job[w] = NoJob
    /\ c \in live
    /\ ~Bound(c)
    /\ claim[c].node # NoNode
    /\ claim[c].uuid # NoUUID
    /\ job' = [job EXCEPT ![w] = [claim |-> c, id |-> claim[c].id, uuid |-> claim[c].uuid,
                                  node |-> claim[c].node, path |-> NoUUID]]
    /\ NoFault
    /\ UNCHANGED <<nodes, claims, volumes, caches, pod>>

\* A mutant: the map of any node that lists the disk.
DiskInfoAnywhere(n, u) ==
    IF \E m \in Nodes : annotation[m][u] # NoUUID
    THEN annotation[CHOOSE m \in Nodes : annotation[m][u] # NoUUID][u]
    ELSE NoUUID

\* A mutant: any entry of the map.
DiskInfoFirst(n, u) ==
    IF Keys(annotation[n]) = {} THEN NoUUID
    ELSE annotation[n][CHOOSE k \in Keys(annotation[n]) : TRUE]

\* The entry of a disk in the map of the selected node, read live.
DiskInfo(n, u) == annotation[n][u]

ReadDiskMap(w) ==
    /\ job[w] # NoJob /\ job[w].path = NoUUID
    /\ DiskInfo(job[w].node, job[w].uuid) # NoUUID
    /\ job' = [job EXCEPT ![w] = [@ EXCEPT !.path = DiskInfo(job[w].node, job[w].uuid)]]
    /\ NoFault
    /\ UNCHANGED <<nodes, claims, volumes, caches, pod>>

\* No map, or no such disk in it: the library takes the selected node off the
\* claim, unless the claim has changed since Provision was called for it.
Reschedule(w) ==
    /\ job[w] # NoJob /\ job[w].path = NoUUID
    /\ DiskInfo(job[w].node, job[w].uuid) = NoUUID
    /\ LET j == job[w] IN
          claim' = IF /\ j.claim \in live /\ claim[j.claim].id = j.id
                      /\ claim[j.claim].node = j.node
                   THEN [claim EXCEPT ![j.claim] = [@ EXCEPT !.node = NoNode]]
                   ELSE claim
    /\ job' = [job EXCEPT ![w] = NoJob]
    /\ NoFault
    /\ UNCHANGED <<nodes, live, volumes, caches, pod>>

\* A mutant: the path is not copied.
NewVolumeWithoutPath(j) ==
    [claim |-> j.claim, id |-> j.id, uuid |-> j.uuid, node |-> j.node, path |-> NoUUID]

\* A mutant: named after the claim that has the name now.
NewVolumeByName(j) ==
    [claim |-> j.claim, id |-> claim[j.claim].id, uuid |-> j.uuid, node |-> j.node, path |-> j.path]

\* The volume Provision returns: the directory, pinned to the selected node.
NewVolume(j) == [claim |-> j.claim, id |-> j.id, uuid |-> j.uuid, node |-> j.node, path |-> j.path]

\* The library stores it under a name made of the claim's UID: if there is one
\* already, that one stays.
CreateVolume(w) ==
    /\ job[w] # NoJob /\ job[w].path # NoUUID
    /\ volumes' = IF \E v \in volumes : v.claim = job[w].claim /\ v.id = job[w].id
                  THEN volumes ELSE volumes \cup {NewVolume(job[w])}
    /\ job' = [job EXCEPT ![w] = NoJob]
    /\ NoFault
    /\ UNCHANGED <<nodes, claims, caches, pod>>

\* The Node cannot be read, the volume not be stored, or the process dies: the
\* claim is taken up again later, by this process or by the next leader.
ProvisionFails(w) ==
    /\ job[w] # NoJob
    /\ Fault("api")
    /\ job' = [job EXCEPT ![w] = NoJob]
    /\ UNCHANGED <<nodes, claims, volumes, caches, pod>>

-----------------------------------------------------------------------------

DiskMaps == [UUIDs -> UUIDs \cup {NoUUID}]

\* What each process does of itself, without any fault.
ScanStep(n) ==
    \/ \E u \in UUIDs : Hold(n, u, u)
    \/ Publish(n, ScannedMap(n))

InformerStep(r) ==
    \/ \E c \in Claims : SyncClaim(r, c)
    \/ \E n \in Nodes : SyncNode(r, n)

PodStep(p) ==
    \/ \E r \in Replicas : AdmitRead(p, r)
    \/ \E n \in Nodes : AdmitPinned(p, n) \/ Schedule(p, n)
    \/ Deny(p) \/ Unreserve(p) \/ BindPod(p) \/ StartPod(p)

ProvisionStep(w) ==
    \/ \E c \in Claims : CallProvision(w, c)
    \/ ReadDiskMap(w) \/ Reschedule(w) \/ CreateVolume(w)

\* What users do, and what goes wrong.
NodeEvent(n) ==
    \/ \E u, path \in UUIDs : Hold(n, u, path)
    \/ \E map \in DiskMaps : Publish(n, map)
    \/ \E u \in UUIDs : MoveDisk(u, n)
    \/ Reboot(n)
    \/ Recreate(n)

UserStep ==
    \/ \E c \in Claims, u \in UUIDs \cup {NoUUID} : CreateClaim(c, u)
    \/ \E c \in Claims : DeleteClaim(c)
    \/ \E v \in volumes : DeleteVolume(v)
    \/ \E p \in Pods :
          AdmitUnseen(p) \/ \E gone \in SUBSET ClaimsOf(p) : DeletePod(p, gone)

Next ==
    \/ \E n \in Nodes : NodeEvent(n)
    \/ UserStep
    \/ \E r \in Replicas : InformerStep(r)
    \/ \E p \in Pods : PodStep(p)
    \/ \E w \in Workers : ProvisionStep(w) \/ ProvisionFails(w)

Spec == Init /\ [][Next]_vars

\* Scanners scan, informers catch up, denied pods are created again, and
\* scheduler, kubelet and provisioner go on.  Nothing is assumed of users, of
\* disks or of faults, nor of which labelled node the webhook finds first.
Fairness ==
    /\ \A n \in Nodes : WF_vars(ScanStep(n))
    /\ \A r \in Replicas : WF_vars(InformerStep(r))
    /\ \A p \in Pods : WF_vars(PodStep(p))
    /\ \A w \in Workers : WF_vars(ProvisionStep(w))

FairSpec == Spec /\ Fairness

-----------------------------------------------------------------------------
(***************************************************************************)
(* Properties.                                                             *)
(***************************************************************************)

Pairs == UUIDs \X UUIDs

Volumes == [claim : Claims, id : 1..MaxId, uuid : UUIDs, node : Nodes, path : UUIDs]

PodStates ==
    [phase : {"absent", "admitting", "pending", "reserved", "bound", "running"},
     by : Replicas \cup {Absent}, uuid : UUIDs \cup {NoUUID},
     selector : Nodes \cup {NoNode}, node : Nodes \cup {NoNode}, onDisk : BOOLEAN]

Jobs == [claim : Claims, id : 1..MaxId, uuid : UUIDs, node : Nodes,
         path : UUIDs \cup {NoUUID}]

\* Every variable has its type.
TypeOK ==
    /\ host \in [UUIDs -> Nodes]
    /\ held \in [Nodes -> SUBSET Pairs]
    /\ dead \in [Nodes -> SUBSET Pairs]
    /\ labels \in [Nodes -> SUBSET UUIDs]
    /\ annotation \in [Nodes -> DiskMaps]
    /\ published \in [Nodes -> BOOLEAN]
    /\ offered \subseteq Nodes \X UUIDs \X UUIDs
    /\ live \subseteq Claims
    /\ claim \in [Claims -> [id : 0..MaxId, uuid : UUIDs \cup {NoUUID}, node : Nodes \cup {NoNode}]]
    /\ volumes \subseteq Volumes
    /\ seenClaims \in [Replicas -> [Claims -> UUIDs \cup {NoUUID, Absent}]]
    /\ seenLabels \in [Replicas -> [Nodes -> SUBSET UUIDs]]
    /\ pod \in [Pods -> PodStates]
    /\ job \in [Workers -> Jobs \cup {NoJob}]
    /\ faults \in 0..MaxFaults

\* A volume only ever gives a directory that its node has published for the
\* disk the claim asked for, although the claim may be deleted, created again
\* or sent to another node, and the map rewritten, while Provision runs.
VolumesWereOffered ==
    \A v \in volumes : <<v.node, v.uuid, v.path>> \in offered

\* A pod that is bound to a node has for each of its claims a volume there, of
\* the disk the claim asks for: a stale cache in the webhook, a stale label or
\* a late worker can keep a pod from running, never have it run on another disk.
RunsWhereItsDisksAre ==
    \A p \in Pods : pod[p].phase \in {"bound", "running"} =>
        \A c \in ClaimsOf(p) :
            \E v \in VolumesOf(c) : v.node = pod[p].node /\ v.uuid = claim[c].uuid

\* The node has been scanned since it booted and lists all disks of the pod.
Scanned(p) ==
    LET n == pod[p].node IN
    /\ published[n]
    /\ \A c \in ClaimsOf(p) : claim[c].uuid \in Keys(annotation[n])

Starts(p) == pod[p].phase = "bound" /\ pod'[p].phase = "running"

\* A pod that starts on a node which was scanned since it booted and lists its
\* disks starts on these disks: the directory the provisioner copied into the
\* volume, perhaps long ago, still is the one the disk is mounted at.
StartsOnScannedDisk == [][\A p \in Pods : Starts(p) /\ Scanned(p) => pod'[p].onDisk]_vars

\* A pod is pinned, with a selector nobody corrects later, only to a node that
\* has published the disk of its claim: labels are never taken off, claims and
\* disks change after the webhook's caches have seen them, and claim and node
\* are looked up at different times, but a pin is never to a place the disk
\* was not at.
PinnedWhereOffered ==
    [][\A p \in Pods :
          pod[p].phase = "admitting" /\ pod'[p].phase = "pending" =>
              \E path \in UUIDs : <<pod'[p].selector, pod[p].uuid, path>> \in offered]_vars

\* The disks of the claims are in one node, and can be mounted there.
Satisfiable(p) ==
    \E n \in Nodes : \A c \in ClaimsOf(p) :
        /\ c \in live
        /\ claim[c].uuid # NoUUID
        /\ host[claim[c].uuid] = n
        /\ <<claim[c].uuid, claim[c].uuid>> \notin dead[n]

\* The pod is kept from the node with its disks: not pinned, pinned elsewhere
\* by a stale label or a stale claim, or a volume was made elsewhere.
Misplaced(p) ==
    /\ IsStored(p)
    /\ \E c \in ClaimsOf(p) :
          \/ host[claim[c].uuid] # pod[p].selector
          \/ \E v \in VolumesOf(c) : v.node # host[v.uuid]

\* Once faults cease, every pod whose disks are in one node runs, unless it
\* was misplaced by something stale: whatever was denied, rescheduled or lost
\* on the way is made good.
EventuallyRuns ==
    <>[](\A p \in Pods : Satisfiable(p) => pod[p].phase = "running" \/ Misplaced(p))

(***************************************************************************)
(* Claims of the documentation that the code does not keep.                *)
(***************************************************************************)

\* "The second provisioning attempt fails - the disk is already bound to a PV"
\* (docs/architecture.md:107).
NoSharedDisk ==
    \A c, d \in Claims : \A v \in VolumesOf(c), w \in VolumesOf(d) :
        v.node = w.node /\ v.path = w.path => c = d

\* "Pod starts with the disk mounted" (docs/architecture.md:58).
StartsOnDisk == [][\A p \in Pods : Starts(p) => pod'[p].onDisk]_vars
=============================================================================
