-------------------------- MODULE ProvisioningProofs --------------------------
(***************************************************************************)
(* Proofs about provisioning, for any number of nodes, disks, claims,      *)
(* pods, replicas, workers and faults.                                     *)
(***************************************************************************)
EXTENDS Provisioning, TLAPS

\* A claim that exists has been created.
TypeInv ==
    /\ TypeOK
    /\ \A c \in live : claim[c].id > 0

\* The chain a path is handed along: map, Provision call, volume.
OfferInv ==
    /\ \A n \in Nodes, u \in UUIDs :
          annotation[n][u] # NoUUID => <<n, u, annotation[n][u]>> \in offered
    /\ \A w \in Workers :
          job[w].path # NoUUID => <<job[w].node, job[w].uuid, job[w].path>> \in offered
    /\ VolumesWereOffered

\* The disks a node has ever published.
Offers(n) == {u \in UUIDs : \E path \in UUIDs : <<n, u, path>> \in offered}

\* The chain a selector is handed along: map, label, cached label.
LabelInv ==
    \A n \in Nodes :
        /\ labels[n] \subseteq Offers(n)
        /\ \A r \in Replicas : seenLabels[r][n] \subseteq Offers(n)

\* Admission is by a replica.
AdmittedBy == \A p \in Pods : pod[p].phase = "admitting" => pod[p].by \in Replicas

\* What was made for a claim, by UID, is for the disk that this claim asks for.
Known(x) ==
    /\ x.id <= claim[x.claim].id
    /\ x.claim \in live /\ x.id = claim[x.claim].id => x.uuid = claim[x.claim].uuid

ClaimInv ==
    /\ \A w \in Workers : job[w] # NoJob => Known(job[w])
    /\ \A v \in volumes : Known(v)

PlaceInv == ClaimInv /\ RunsWhereItsDisksAre

\* Without hot swaps a disk is only ever mounted at its own directory.
PathInv ==
    /\ \A n \in Nodes : \A pair \in held[n] : pair[1] = pair[2]
    /\ \A o \in offered : o[2] = o[3]
    /\ \A n \in Nodes : published[n] => Graph(annotation[n]) \subseteq held[n]

-----------------------------------------------------------------------------
(***************************************************************************)
(* Types.                                                                  *)
(***************************************************************************)

\* One more pod state is stored under a name.
LEMMA PodUpdate ==
    ASSUME TypeOK, NEW p \in Pods, NEW x \in PodStates,
           pod' = [pod EXCEPT ![p] = x]
    PROVE  pod' \in [Pods -> PodStates]
  BY DEF TypeOK

LEMMA PodRecords ==
    /\ NoPod \in PodStates
    /\ \A s \in Nodes \cup {NoNode} : Stored(s) \in PodStates
    /\ \A x \in PodStates, n \in Nodes \cup {NoNode}, b \in BOOLEAN,
          ph \in {"absent", "admitting", "pending", "reserved", "bound", "running"} :
          /\ [x EXCEPT !.phase = ph] \in PodStates
          /\ [x EXCEPT !.phase = ph, !.node = n] \in PodStates
          /\ [x EXCEPT !.phase = ph, !.onDisk = b] \in PodStates
<1>1. NoPod \in PodStates
  BY DEF NoPod, PodStates
<1>2. ASSUME NEW s \in Nodes \cup {NoNode}
      PROVE  Stored(s) \in PodStates
  BY <1>1 DEF Stored, PodStates
<1>3. ASSUME NEW x \in PodStates, NEW n \in Nodes \cup {NoNode}, NEW b \in BOOLEAN,
             NEW ph \in {"absent", "admitting", "pending", "reserved", "bound", "running"}
      PROVE  /\ [x EXCEPT !.phase = ph] \in PodStates
             /\ [x EXCEPT !.phase = ph, !.node = n] \in PodStates
             /\ [x EXCEPT !.phase = ph, !.onDisk = b] \in PodStates
  <2>1. [x EXCEPT !.phase = ph] \in PodStates
    BY DEF PodStates
  <2>2. [x EXCEPT !.phase = ph, !.node = n] \in PodStates
    BY DEF PodStates
  <2>3. [x EXCEPT !.phase = ph, !.onDisk = b] \in PodStates
    BY DEF PodStates
  <2> QED
    BY <2>1, <2>2, <2>3
<1> QED
  BY <1>1, <1>2, <1>3

\* NoJob is no call: it names no claim.
LEMMA NoJobIsNone == NoJob.path = NoUUID /\ NoJob.id = 0 /\ NoJob \notin Jobs
  BY DEF NoJob, Jobs

LEMMA FaultType ==
    ASSUME TypeOK, NEW k, Fault(k) \/ NoFault
    PROVE  faults' \in 0..MaxFaults
  BY BoundsAssumption DEF TypeOK, Fault, NoFault

\* What deleting claims leaves.
LEMMA WithoutClaimsType ==
    ASSUME TypeInv, NEW gone, WithoutClaims(gone)
    PROVE  /\ live' \subseteq Claims
           /\ claim' \in [Claims -> [id : 0..MaxId, uuid : UUIDs \cup {NoUUID},
                                     node : Nodes \cup {NoNode}]]
           /\ \A c \in live' : claim'[c].id > 0
  BY DEF TypeInv, TypeOK, WithoutClaims

LEMMA ScannedMapType ==
    ASSUME NEW n \in Nodes
    PROVE  ScannedMap(n) \in DiskMaps
<1>1. ASSUME NEW u \in UUIDs, NEW path \in UUIDs, <<u, path>> \in LiveMounts(n)
      PROVE  (CHOOSE q \in UUIDs : <<u, q>> \in LiveMounts(n)) \in UUIDs
  BY <1>1
<1> QED
  BY <1>1 DEF ScannedMap, DiskMaps

LEMMA TypeInit == Init => TypeInv
<1> SUFFICES ASSUME Init
             PROVE  TypeInv
  OBVIOUS
<1>1. /\ host \in [UUIDs -> Nodes]
      /\ 0 \in 0..MaxId /\ 0 \in 0..MaxFaults
  BY HostsAssumption, BoundsAssumption DEF Init
<1>2. annotation \in [Nodes -> DiskMaps]
  BY DEF Init, EmptyMap, DiskMaps
<1>3. pod \in [Pods -> PodStates]
  BY PodRecords DEF Init
<1>4. claim \in [Claims -> [id : 0..MaxId, uuid : UUIDs \cup {NoUUID}, node : Nodes \cup {NoNode}]]
  BY <1>1 DEF Init
<1>5. /\ seenClaims \in [Replicas -> [Claims -> UUIDs \cup {NoUUID, Absent}]]
      /\ seenLabels \in [Replicas -> [Nodes -> SUBSET UUIDs]]
  BY DEF Init
<1>6. /\ held \in [Nodes -> SUBSET Pairs]
      /\ dead \in [Nodes -> SUBSET Pairs]
      /\ labels \in [Nodes -> SUBSET UUIDs]
      /\ published \in [Nodes -> BOOLEAN]
      /\ offered = {} /\ live = {} /\ volumes = {} /\ faults = 0
      /\ job \in [Workers -> Jobs \cup {NoJob}]
  BY DEF Init
<1> QED
  BY <1>1, <1>2, <1>3, <1>4, <1>5, <1>6 DEF TypeInv, TypeOK

\* An answer about a disk of a pod is a UUID, NoUUID or Absent.
LEMMA DiskUUIDType ==
    ASSUME TypeOK, NEW r \in Replicas, NEW p \in Pods
    PROVE  DiskUUIDForPod(r, p) \in UUIDs \cup {NoUUID, Absent}
<1> DEFINE answer == [i \in DOMAIN PodClaims[p] |-> Resolve(r, PodClaims[p][i])]
           decides(i) == answer[i] # NoUUID /\ \A j \in 1..(i - 1) : answer[j] = NoUUID
<1>1. \A i \in DOMAIN answer : answer[i] \in UUIDs \cup {NoUUID, Absent}
  <2>1. \A i \in DOMAIN PodClaims[p] : PodClaims[p][i] \in Claims
    BY PodClaimsAssumption
  <2> QED
    BY <2>1 DEF TypeOK, Resolve
<1>2. CASE \E i \in DOMAIN answer : decides(i)
  <2>1. (CHOOSE i \in DOMAIN answer : decides(i)) \in DOMAIN answer
    BY <1>2
  <2> QED
    BY <1>1, <1>2, <2>1 DEF DiskUUIDForPod
<1>3. CASE ~\E i \in DOMAIN answer : decides(i)
  BY <1>3 DEF DiskUUIDForPod
<1> QED
  BY <1>2, <1>3

\* Every step keeps the types.
LEMMA TypeNext == TypeInv /\ [Next]_vars => TypeInv'
<1> SUFFICES ASSUME TypeInv, [Next]_vars
             PROVE  TypeInv'
  OBVIOUS
<1> TypeOK
  BY DEF TypeInv
<1> DEFINE ClaimType == [id : 0..MaxId, uuid : UUIDs \cup {NoUUID}, node : Nodes \cup {NoNode}]
<1> USE BoundsAssumption
\* The nodes.
<1>1. ASSUME NEW n \in Nodes, NodeEvent(n)
      PROVE  TypeInv'
  <2>1. ASSUME NEW u \in UUIDs, NEW path \in UUIDs, Hold(n, u, path)
        PROVE  TypeInv'
    <3>1. faults' \in 0..MaxFaults
      BY <2>1, FaultType DEF Hold
    <3>2. held' \in [Nodes -> SUBSET Pairs]
      BY <2>1 DEF Hold, TypeOK, Pairs
    <3> QED
      BY <2>1, <3>1, <3>2 DEF Hold, TypeInv, TypeOK, claims, caches
  <2>2. ASSUME NEW map \in DiskMaps, Publish(n, map)
        PROVE  TypeInv'
    <3>1. faults' \in 0..MaxFaults
      BY <2>2, FaultType DEF Publish
    <3>2. /\ annotation' \in [Nodes -> DiskMaps]
          /\ labels' \in [Nodes -> SUBSET UUIDs]
          /\ published' \in [Nodes -> BOOLEAN]
      BY <2>2 DEF Publish, TypeOK, PatchedLabels, Keys
    <3>3. offered' \subseteq Nodes \X UUIDs \X UUIDs
      <4>1. \A u \in Keys(map) : map[u] \in UUIDs
        BY DEF Keys, DiskMaps
      <4> QED
        BY <2>2, <4>1 DEF Publish, TypeOK, Keys
    <3> QED
      BY <2>2, <3>1, <3>2, <3>3 DEF Publish, TypeInv, TypeOK, claims, caches
  <2>3. ASSUME NEW u \in UUIDs, MoveDisk(u, n)
        PROVE  TypeInv'
    <3>1. faults' \in 0..MaxFaults
      BY <2>3, FaultType DEF MoveDisk
    <3>2. /\ host' \in [UUIDs -> Nodes]
          /\ dead' \in [Nodes -> SUBSET Pairs]
      BY <2>3 DEF MoveDisk, TypeOK
    <3> QED
      BY <2>3, <3>1, <3>2 DEF MoveDisk, TypeInv, TypeOK, claims, caches
  <2>4. CASE Reboot(n)
    <3>1. faults' \in 0..MaxFaults
      BY <2>4, FaultType DEF Reboot
    <3>2. /\ held' \in [Nodes -> SUBSET Pairs]
          /\ dead' \in [Nodes -> SUBSET Pairs]
          /\ published' \in [Nodes -> BOOLEAN]
      BY <2>4 DEF Reboot, TypeOK, Pairs
    <3>3. pod' \in [Pods -> PodStates]
      <4>1. \A p \in Pods : pod[p] \in PodStates
        BY DEF TypeOK
      <4>2. \A p \in Pods : [pod[p] EXCEPT !.phase = "bound", !.onDisk = FALSE] \in PodStates
        BY <4>1, PodRecords
      <4> QED
        BY <2>4, <4>1, <4>2 DEF Reboot
    <3> QED
      BY <2>4, <3>1, <3>2, <3>3 DEF Reboot, TypeInv, TypeOK, claims, caches
  <2>5. CASE Recreate(n)
    <3>1. faults' \in 0..MaxFaults
      BY <2>5, FaultType DEF Recreate
    <3>2. /\ annotation' \in [Nodes -> DiskMaps]
          /\ labels' \in [Nodes -> SUBSET UUIDs]
      BY <2>5 DEF Recreate, TypeOK, EmptyMap, DiskMaps
    <3> QED
      BY <2>5, <3>1, <3>2 DEF Recreate, TypeInv, TypeOK, claims, caches
  <2> QED
    BY <1>1, <2>1, <2>2, <2>3, <2>4, <2>5 DEF NodeEvent
\* Users.
<1>2. CASE UserStep
  <2>1. ASSUME NEW c \in Claims, NEW u \in UUIDs \cup {NoUUID}, CreateClaim(c, u)
        PROVE  TypeInv'
    <3>1. [id |-> claim[c].id + 1, uuid |-> u, node |-> NoNode] \in ClaimType
      BY <2>1 DEF CreateClaim, TypeOK
    <3>2. claim' = [claim EXCEPT ![c] = [id |-> claim[c].id + 1, uuid |-> u, node |-> NoNode]]
      BY <2>1 DEF CreateClaim
    <3>3. claim' \in [Claims -> ClaimType]
      BY <3>1, <3>2 DEF TypeOK
    <3>4. \A d \in live' : claim'[d].id > 0
      BY <2>1, <3>2 DEF CreateClaim, TypeInv, TypeOK
    <3> QED
      BY <2>1, <3>3, <3>4 DEF CreateClaim, TypeInv, TypeOK, nodes, caches, NoFault
  <2>2. ASSUME NEW c \in Claims, DeleteClaim(c)
        PROVE  TypeInv'
    <3>1. faults' \in 0..MaxFaults
      BY <2>2, FaultType DEF DeleteClaim
    <3> QED
      BY <2>2, <3>1, WithoutClaimsType DEF DeleteClaim, TypeInv, TypeOK, nodes, caches
  <2>3. ASSUME NEW v \in volumes, DeleteVolume(v)
        PROVE  TypeInv'
    BY <2>3 DEF DeleteVolume, TypeInv, TypeOK, nodes, claims, caches, NoFault
  <2>4. ASSUME NEW p \in Pods, AdmitUnseen(p)
        PROVE  TypeInv'
    <3>1. faults' \in 0..MaxFaults
      BY <2>4, FaultType DEF AdmitUnseen
    <3>2. pod' \in [Pods -> PodStates]
      BY <2>4, PodRecords, PodUpdate DEF AdmitUnseen
    <3> QED
      BY <2>4, <3>1, <3>2 DEF AdmitUnseen, TypeInv, TypeOK, nodes, claims, caches
  <2>5. ASSUME NEW p \in Pods, NEW gone, DeletePod(p, gone)
        PROVE  TypeInv'
    <3>1. faults' \in 0..MaxFaults
      BY <2>5, FaultType DEF DeletePod
    <3>2. pod' \in [Pods -> PodStates]
      BY <2>5, PodRecords, PodUpdate DEF DeletePod
    <3> QED
      BY <2>5, <3>1, <3>2, WithoutClaimsType DEF DeletePod, TypeInv, TypeOK, nodes, caches
  <2> QED
    BY <1>2, <2>1, <2>2, <2>3, <2>4, <2>5 DEF UserStep
\* Informers.
<1>3. ASSUME NEW r \in Replicas, InformerStep(r)
      PROVE  TypeInv'
  <2>1. ASSUME NEW c \in Claims, SyncClaim(r, c)
        PROVE  TypeInv'
    <3>1. (IF c \in live THEN claim[c].uuid ELSE Absent) \in UUIDs \cup {NoUUID, Absent}
      BY DEF TypeOK
    <3>2. seenClaims' \in [Replicas -> [Claims -> UUIDs \cup {NoUUID, Absent}]]
      BY <2>1, <3>1 DEF SyncClaim, TypeOK
    <3> QED
      BY <2>1, <3>2 DEF SyncClaim, TypeInv, TypeOK, nodes, claims, NoFault
  <2>2. ASSUME NEW n \in Nodes, SyncNode(r, n)
        PROVE  TypeInv'
    BY <2>2 DEF SyncNode, TypeInv, TypeOK, nodes, claims, NoFault
  <2> QED
    BY <1>3, <2>1, <2>2 DEF InformerStep
\* Pods on their way.
<1>4. ASSUME NEW p \in Pods, PodStep(p)
      PROVE  TypeInv'
  <2>0. pod[p] \in PodStates
    BY DEF TypeOK
  <2>1. ASSUME NEW r \in Replicas, AdmitRead(p, r)
        PROVE  TypeInv'
    <3> DEFINE uuid == DiskUUIDForPod(r, p)
               x == [NoPod EXCEPT !.phase = "admitting", !.by = r, !.uuid = uuid]
    <3>1. uuid \in UUIDs \cup {NoUUID}
      BY <2>1, DiskUUIDType DEF AdmitRead
    <3>2. x \in PodStates
      <4> HIDE DEF uuid
      <4> QED
        BY <3>1 DEF NoPod, PodStates
    <3>3. pod' = [pod EXCEPT ![p] = IF uuid = NoUUID THEN Stored(NoNode) ELSE x]
      BY <2>1 DEF AdmitRead
    <3>4. pod' \in [Pods -> PodStates]
      <4> HIDE DEF uuid, x
      <4> QED
        BY <3>2, <3>3, PodRecords, PodUpdate
    <3> QED
      BY <2>1, <3>4 DEF AdmitRead, TypeInv, TypeOK, nodes, claims, caches, NoFault
  <2>2. ASSUME NEW n \in Nodes, AdmitPinned(p, n)
        PROVE  TypeInv'
    <3>1. pod' \in [Pods -> PodStates]
      BY <2>2, PodRecords, PodUpdate DEF AdmitPinned
    <3> QED
      BY <2>2, <3>1 DEF AdmitPinned, TypeInv, TypeOK, nodes, claims, caches, NoFault
  <2>3. ASSUME NEW n \in Nodes, Schedule(p, n)
        PROVE  TypeInv'
    <3>1. [pod[p] EXCEPT !.phase = "reserved", !.node = n] \in PodStates
      BY <2>0, PodRecords
    <3>2. pod' \in [Pods -> PodStates]
      BY <2>3, <3>1, PodUpdate DEF Schedule
    <3>3. \A c \in Claims : /\ [claim[c] EXCEPT !.node = n] \in ClaimType
                            /\ [claim[c] EXCEPT !.node = n].id = claim[c].id
      BY DEF TypeOK
    <3>4. /\ claim' \in [Claims -> ClaimType]
          /\ \A c \in Claims : claim'[c].id = claim[c].id
      BY <2>3, <3>3 DEF Schedule, TypeOK
    <3> QED
      BY <2>3, <3>2, <3>4 DEF Schedule, TypeInv, TypeOK, nodes, caches, NoFault
  <2>4. CASE Deny(p)
    <3>1. pod' \in [Pods -> PodStates]
      BY <2>4, PodRecords, PodUpdate DEF Deny
    <3> QED
      BY <2>4, <3>1 DEF Deny, TypeInv, TypeOK, nodes, claims, caches, NoFault
  <2>5. CASE Unreserve(p)
    <3>1. [pod[p] EXCEPT !.phase = "pending", !.node = NoNode] \in PodStates
      BY <2>0, PodRecords
    <3>2. pod' \in [Pods -> PodStates]
      BY <2>5, <3>1, PodUpdate DEF Unreserve
    <3> QED
      BY <2>5, <3>2 DEF Unreserve, TypeInv, TypeOK, nodes, claims, caches, NoFault
  <2>6. CASE BindPod(p)
    <3>1. [pod[p] EXCEPT !.phase = "bound"] \in PodStates
      BY <2>0, PodRecords
    <3>2. pod' \in [Pods -> PodStates]
      BY <2>6, <3>1, PodUpdate DEF BindPod
    <3> QED
      BY <2>6, <3>2 DEF BindPod, TypeInv, TypeOK, nodes, claims, caches, NoFault
  <2>7. CASE StartPod(p)
    <3>1. PICK b \in BOOLEAN : pod' = [pod EXCEPT ![p] = [pod[p] EXCEPT !.phase = "running", !.onDisk = b]]
      BY <2>7 DEF StartPod
    <3>2. [pod[p] EXCEPT !.phase = "running", !.onDisk = b] \in PodStates
      BY <2>0, PodRecords
    <3>3. pod' \in [Pods -> PodStates]
      BY <3>1, <3>2, PodUpdate
    <3> QED
      BY <2>7, <3>3 DEF StartPod, TypeInv, TypeOK, nodes, claims, caches, NoFault
  <2> QED
    BY <1>4, <2>1, <2>2, <2>3, <2>4, <2>5, <2>6, <2>7 DEF PodStep
\* The provisioner.
<1>5. ASSUME NEW w \in Workers, ProvisionStep(w) \/ ProvisionFails(w)
      PROVE  TypeInv'
  <2>0. /\ job[w] \in Jobs \cup {NoJob}
        /\ job[w] # NoJob => job[w] \in Jobs
    BY DEF TypeOK
  <2>1. ASSUME NEW c \in Claims, CallProvision(w, c)
        PROVE  TypeInv'
    <3>1. [claim |-> c, id |-> claim[c].id, uuid |-> claim[c].uuid,
           node |-> claim[c].node, path |-> NoUUID] \in Jobs
      BY <2>1 DEF CallProvision, TypeInv, TypeOK, Jobs
    <3>2. job' \in [Workers -> Jobs \cup {NoJob}]
      BY <2>1, <3>1 DEF CallProvision, TypeOK
    <3> QED
      BY <2>1, <3>2 DEF CallProvision, TypeInv, TypeOK, nodes, claims, caches, NoFault
  <2>2. CASE ReadDiskMap(w)
    <3>1. annotation[job[w].node][job[w].uuid] \in UUIDs
      BY <2>0, <2>2 DEF ReadDiskMap, DiskInfo, TypeOK, Jobs, DiskMaps
    <3>2. [job[w] EXCEPT !.path = annotation[job[w].node][job[w].uuid]] \in Jobs
      BY <2>0, <2>2, <3>1 DEF ReadDiskMap, Jobs
    <3>3. job' \in [Workers -> Jobs \cup {NoJob}]
      BY <2>2, <3>2 DEF ReadDiskMap, DiskInfo, TypeOK
    <3> QED
      BY <2>2, <3>3 DEF ReadDiskMap, TypeInv, TypeOK, nodes, claims, caches, NoFault
  <2>3. CASE Reschedule(w)
    <3>1. job' \in [Workers -> Jobs \cup {NoJob}]
      BY <2>3 DEF Reschedule, TypeOK
    <3>2. \A c \in Claims : /\ [claim[c] EXCEPT !.node = NoNode] \in ClaimType
                            /\ [claim[c] EXCEPT !.node = NoNode].id = claim[c].id
      BY DEF TypeOK
    <3>3. \/ claim' = [claim EXCEPT ![job[w].claim] = [claim[job[w].claim] EXCEPT !.node = NoNode]]
          \/ claim' = claim
      BY <2>3 DEF Reschedule
    <3>4. /\ claim' \in [Claims -> ClaimType]
          /\ \A c \in Claims : claim'[c].id = claim[c].id
      <4>1. job[w].claim \in Claims
        BY <2>0, <2>3 DEF Reschedule, Jobs
      <4> QED
        BY <3>2, <3>3, <4>1 DEF TypeOK
    <3> QED
      BY <2>3, <3>1, <3>4 DEF Reschedule, TypeInv, TypeOK, nodes, caches, NoFault
  <2>4. CASE CreateVolume(w)
    <3>1. job' \in [Workers -> Jobs \cup {NoJob}]
      BY <2>4 DEF CreateVolume, TypeOK
    <3>2. NewVolume(job[w]) \in Volumes
      BY <2>0, <2>4 DEF CreateVolume, NewVolume, Volumes, Jobs
    <3>3. volumes' \subseteq Volumes
      BY <2>4, <3>2 DEF CreateVolume, TypeOK
    <3> QED
      BY <2>4, <3>1, <3>3 DEF CreateVolume, TypeInv, TypeOK, nodes, claims, caches, NoFault
  <2>5. CASE ProvisionFails(w)
    <3>1. faults' \in 0..MaxFaults
      BY <2>5, FaultType DEF ProvisionFails
    <3>2. job' \in [Workers -> Jobs \cup {NoJob}]
      BY <2>5 DEF ProvisionFails, TypeOK
    <3> QED
      BY <2>5, <3>1, <3>2 DEF ProvisionFails, TypeInv, TypeOK, nodes, claims, caches
  <2> QED
    BY <1>5, <2>1, <2>2, <2>3, <2>4, <2>5 DEF ProvisionStep
<1>6. CASE UNCHANGED vars
  BY <1>6 DEF vars, nodes, claims, caches, TypeInv, TypeOK
<1> QED
  BY <1>1, <1>2, <1>3, <1>4, <1>5, <1>6 DEF Next

\* Types hold in every reachable state.
THEOREM ProvisioningTypeCorrect == Spec => []TypeOK
<1>1. TypeInv => TypeOK
  BY DEF TypeInv
<1> QED
  BY TypeInit, TypeNext, <1>1, PTL DEF Spec

-----------------------------------------------------------------------------
(***************************************************************************)
(* Volumes are made of published entries.                                  *)
(***************************************************************************)

LEMMA OfferInit == Init => OfferInv
  BY NoJobIsNone DEF Init, OfferInv, EmptyMap, VolumesWereOffered

\* What is offered stays offered, so only steps that copy a path matter.
LEMMA OfferKept ==
    ASSUME OfferInv, offered \subseteq offered',
           \A n \in Nodes, u \in UUIDs :
              \/ annotation'[n][u] = annotation[n][u]
              \/ annotation'[n][u] = NoUUID
              \/ <<n, u, annotation'[n][u]>> \in offered',
           \A w \in Workers :
              \/ job'[w] = job[w]
              \/ job'[w].path = NoUUID
              \/ <<job'[w].node, job'[w].uuid, job'[w].path>> \in offered',
           \A v \in volumes' : v \in volumes \/ <<v.node, v.uuid, v.path>> \in offered'
    PROVE  OfferInv'
  BY DEF OfferInv, VolumesWereOffered

LEMMA OfferNext == TypeInv /\ OfferInv /\ [Next]_vars => OfferInv'
<1> SUFFICES ASSUME TypeInv, OfferInv, [Next]_vars
             PROVE  OfferInv'
  OBVIOUS
<1> TypeOK
  BY DEF TypeInv
<1>1. ASSUME NEW n \in Nodes, NEW map \in DiskMaps, Publish(n, map)
      PROVE  OfferInv'
  <2>1. UNCHANGED <<job, volumes>> /\ offered \subseteq offered'
    BY <1>1 DEF Publish
  <2>2. \A m \in Nodes, u \in UUIDs :
           \/ annotation'[m][u] = annotation[m][u]
           \/ annotation'[m][u] = NoUUID
           \/ <<m, u, annotation'[m][u]>> \in offered'
    BY <1>1 DEF Publish, TypeOK, Keys, DiskMaps
  <2> QED
    BY <2>1, <2>2, OfferKept
<1>2. ASSUME NEW n \in Nodes, Recreate(n)
      PROVE  OfferInv'
  <2>1. \A m \in Nodes, u \in UUIDs :
           annotation'[m][u] = annotation[m][u] \/ annotation'[m][u] = NoUUID
    BY <1>2 DEF Recreate, TypeOK, EmptyMap
  <2> QED
    BY <1>2, <2>1, OfferKept DEF Recreate
<1>3. ASSUME NEW w \in Workers, NEW c \in Claims, CallProvision(w, c)
      PROVE  OfferInv'
  <2>1. \A x \in Workers : job'[x] = job[x] \/ job'[x].path = NoUUID
    BY <1>3 DEF CallProvision, TypeOK
  <2> QED
    BY <1>3, <2>1, OfferKept DEF CallProvision, nodes
<1>4. ASSUME NEW w \in Workers, ReadDiskMap(w)
      PROVE  OfferInv'
  <2> DEFINE n == job[w].node
             u == job[w].uuid
  <2>1. job[w] \in Jobs
    BY <1>4 DEF ReadDiskMap, TypeOK
  <2>2. n \in Nodes /\ u \in UUIDs /\ annotation[n][u] # NoUUID
    BY <1>4, <2>1 DEF ReadDiskMap, DiskInfo, Jobs
  <2>3. <<n, u, annotation[n][u]>> \in offered
    BY <2>2 DEF OfferInv
  <2>4. job'[w].node = n /\ job'[w].uuid = u /\ job'[w].path = annotation[n][u]
    BY <1>4, <2>1 DEF ReadDiskMap, DiskInfo, TypeOK, Jobs
  <2>5. \A x \in Workers : x # w => job'[x] = job[x]
    BY <1>4 DEF ReadDiskMap, TypeOK
  <2>6. UNCHANGED <<nodes, volumes>>
    BY <1>4 DEF ReadDiskMap
  <2> HIDE DEF n, u
  <2> QED
    BY <2>3, <2>4, <2>5, <2>6, OfferKept DEF nodes
<1>5. ASSUME NEW w \in Workers, Reschedule(w) \/ ProvisionFails(w)
      PROVE  OfferInv'
  <2>1. \A x \in Workers : job'[x] = job[x] \/ job'[x].path = NoUUID
    BY <1>5, NoJobIsNone DEF Reschedule, ProvisionFails, TypeOK
  <2> QED
    BY <1>5, <2>1, OfferKept DEF Reschedule, ProvisionFails, nodes
<1>6. ASSUME NEW w \in Workers, CreateVolume(w)
      PROVE  OfferInv'
  <2>1. \A x \in Workers : job'[x] = job[x] \/ job'[x].path = NoUUID
    BY <1>6, NoJobIsNone DEF CreateVolume, TypeOK
  <2>2. \A v \in volumes' : v \in volumes \/ <<v.node, v.uuid, v.path>> \in offered
    BY <1>6 DEF CreateVolume, NewVolume, OfferInv
  <2> QED
    BY <1>6, <2>1, <2>2, OfferKept DEF CreateVolume, nodes
<1>7. ASSUME NEW v \in volumes, DeleteVolume(v)
      PROVE  OfferInv'
  BY <1>7, OfferKept DEF DeleteVolume, nodes
\* All other steps.
<1>8. CASE UNCHANGED <<annotation, offered, job, volumes>>
  BY <1>8, OfferKept
<1>9. ASSUME NEW n \in Nodes, NodeEvent(n)
      PROVE  OfferInv'
  BY <1>1, <1>2, <1>8, <1>9 DEF NodeEvent, Hold, MoveDisk, Reboot
<1>10. CASE UserStep
  BY <1>7, <1>8, <1>10
  DEF UserStep, CreateClaim, DeleteClaim, AdmitUnseen, DeletePod, nodes
<1>11. ASSUME NEW r \in Replicas, InformerStep(r)
       PROVE  OfferInv'
  BY <1>8, <1>11 DEF InformerStep, SyncClaim, SyncNode, nodes
<1>12. ASSUME NEW p \in Pods, PodStep(p)
       PROVE  OfferInv'
  BY <1>8, <1>12
  DEF PodStep, AdmitRead, AdmitPinned, Schedule, Deny, Unreserve, BindPod, StartPod, nodes
<1>13. CASE UNCHANGED vars
  BY <1>8, <1>13 DEF vars, nodes
<1> QED
  BY <1>3, <1>4, <1>5, <1>6, <1>9, <1>10, <1>11, <1>12, <1>13 DEF Next, ProvisionStep

\* A volume only ever gives a directory its node has published for the disk
\* of its claim: Provision never makes one up, however late it runs.
THEOREM VolumesAreOffered == Spec => []VolumesWereOffered
<1>1. OfferInv => VolumesWereOffered
  BY DEF OfferInv
<1> QED
  BY TypeInit, TypeNext, OfferInit, OfferNext, <1>1, PTL DEF Spec

-----------------------------------------------------------------------------
(***************************************************************************)
(* A pod runs where its disks are.                                         *)
(***************************************************************************)

LEMMA PlaceInit == Init => PlaceInv
  BY NoJobIsNone DEF Init, PlaceInv, ClaimInv, RunsWhereItsDisksAre, NoPod

\* A claim keeps its UID and its annotation, goes, or is created anew.
ClaimsGrow ==
    \A c \in Claims :
        \/ c \in live' /\ c \in live /\ claim'[c].id = claim[c].id /\ claim'[c].uuid = claim[c].uuid
        \/ c \notin live' /\ claim'[c].id = claim[c].id
        \/ c \notin live /\ claim'[c].id = claim[c].id + 1

\* What is known of a UID stays true.
LEMMA KnownKept ==
    ASSUME TypeInv, ClaimsGrow, NEW x, x.claim \in Claims, x.id \in Nat, Known(x)
    PROVE  Known(x)'
<1> DEFINE c == x.claim
<1>1. claim[c].id \in Nat
  BY BoundsAssumption DEF TypeInv, TypeOK
<1> QED
  BY <1>1 DEF ClaimsGrow, Known

\* Steps that make no volume and no call and leave the claims of bound pods.
LEMMA PlaceKept ==
    ASSUME TypeInv, PlaceInv, ClaimsGrow,
           \A w \in Workers : job'[w] = job[w] \/ job'[w] = NoJob,
           \A v \in volumes' : v \in volumes,
           \A v \in volumes : v \in volumes' \/ v \notin VolumesOf(v.claim),
           \A p \in Pods : pod'[p].phase \in {"bound", "running"} =>
              /\ pod[p].phase \in {"bound", "running"} /\ pod'[p].node = pod[p].node
              /\ \A c \in ClaimsOf(p) : c \in live => c \in live'
    PROVE  PlaceInv'
<1> TypeOK
  BY DEF TypeInv
<1>1. ClaimInv'
  <2>1. \A w \in Workers : job'[w] # NoJob => Known(job[w])'
    <3> TAKE w \in Workers
    <3> HAVE job'[w] # NoJob
    <3>1. job[w] \in Jobs /\ Known(job[w]) /\ job'[w] = job[w]
      BY DEF PlaceInv, ClaimInv, TypeOK
    <3> DEFINE j == job[w]
    <3>2. j.claim \in Claims /\ j.id \in Nat /\ Known(j)
      BY <3>1, BoundsAssumption DEF Jobs
    <3>3. ASSUME NEW x, x = j
          PROVE  Known(x)'
      BY <3>2, <3>3, KnownKept
    <3> QED
      BY <3>1, <3>3
  <2>2. \A v \in volumes' : Known(v)'
    BY KnownKept, BoundsAssumption DEF PlaceInv, ClaimInv, TypeOK, Volumes
  <2> QED
    BY <2>1, <2>2 DEF ClaimInv
<1>2. RunsWhereItsDisksAre'
  <2> SUFFICES ASSUME NEW p \in Pods, pod'[p].phase \in {"bound", "running"},
                      NEW c \in ClaimsOf(p)
               PROVE  \E v \in VolumesOf(c)' : v.node = pod'[p].node /\ v.uuid = claim'[c].uuid
    BY DEF RunsWhereItsDisksAre, ClaimsOf
  <2>1. PICK v \in VolumesOf(c) : v.node = pod[p].node /\ v.uuid = claim[c].uuid
    BY DEF PlaceInv, RunsWhereItsDisksAre
  <2>2. v \in volumes /\ c \in live /\ v.claim = c /\ v.id = claim[c].id
    BY <2>1 DEF VolumesOf
  <2>3. c \in Claims /\ c \in live' /\ v \in volumes'
    BY <2>1, <2>2 DEF TypeOK
  <2>4. claim'[c].id = claim[c].id /\ claim'[c].uuid = claim[c].uuid
    BY <2>2, <2>3 DEF ClaimsGrow
  <2> QED
    BY <2>1, <2>2, <2>3, <2>4 DEF VolumesOf
<1> QED
  BY <1>1, <1>2 DEF PlaceInv

\* Steps that leave the claims alone.
LEMMA ClaimsSame == UNCHANGED claims => ClaimsGrow
  BY DEF claims, ClaimsGrow

\* Deleting claims nobody bound uses.
LEMMA ClaimsGone ==
    ASSUME TypeInv, NEW gone, WithoutClaims(gone)
    PROVE  ClaimsGrow
<1> SUFFICES ASSUME NEW c \in Claims
             PROVE  \/ /\ c \in live' /\ c \in live
                       /\ claim'[c].id = claim[c].id /\ claim'[c].uuid = claim[c].uuid
                    \/ c \notin live' /\ claim'[c].id = claim[c].id
                    \/ c \notin live /\ claim'[c].id = claim[c].id + 1
  BY DEF ClaimsGrow
<1>1. CASE c \in gone
  BY <1>1 DEF WithoutClaims
<1>2. CASE c \notin gone /\ c \in live
  BY <1>2 DEF WithoutClaims
<1>3. CASE c \notin gone /\ c \notin live
  BY <1>3 DEF WithoutClaims
<1> QED
  BY <1>1, <1>2, <1>3

LEMMA PlaceNext == TypeInv /\ PlaceInv /\ [Next]_vars => PlaceInv'
<1> SUFFICES ASSUME TypeInv, PlaceInv, [Next]_vars
             PROVE  PlaceInv'
  OBVIOUS
<1> TypeOK
  BY DEF TypeInv
<1> DEFINE Runs(p) == pod[p].phase \in {"bound", "running"}
<1>0. CASE UNCHANGED <<claims, volumes, job, pod>>
  BY <1>0, PlaceKept, ClaimsSame DEF claims
\* Claims come and go.
<1>1. ASSUME NEW c \in Claims, NEW u, CreateClaim(c, u)
      PROVE  PlaceInv'
  <2>1. ClaimsGrow
    BY <1>1 DEF CreateClaim, ClaimsGrow, TypeOK
  <2> QED
    BY <1>1, <2>1, PlaceKept DEF CreateClaim
<1>2. ASSUME NEW c \in Claims, DeleteClaim(c)
      PROVE  PlaceInv'
  <2>1. ClaimsGrow
    BY <1>2, ClaimsGone DEF DeleteClaim
  <2>2. \A p \in Pods : Runs(p) => c \notin ClaimsOf(p)
    BY <1>2 DEF DeleteClaim, IsStored
  <2> QED
    BY <1>2, <2>1, <2>2, PlaceKept DEF DeleteClaim, WithoutClaims
<1>3. ASSUME NEW p \in Pods, NEW gone, DeletePod(p, gone)
      PROVE  PlaceInv'
  <2>1. ClaimsGrow
    BY <1>3, ClaimsGone DEF DeletePod
  <2>2. pod'[p].phase = "absent" /\ \A q \in Pods : q # p => pod'[q] = pod[q]
    BY <1>3 DEF DeletePod, TypeOK, NoPod
  <2>3. \A q \in Pods : q # p /\ Runs(q) => \A c \in ClaimsOf(q) : c \in live => c \in live'
    BY <1>3 DEF DeletePod, IsStored, WithoutClaims
  <2> QED
    BY <1>3, <2>1, <2>2, <2>3, PlaceKept DEF DeletePod
<1>4. ASSUME NEW v \in volumes, DeleteVolume(v)
      PROVE  PlaceInv'
  BY <1>4, PlaceKept, ClaimsSame DEF DeleteVolume, claims
\* Pods that are not bound by the step.
<1>5. ASSUME UNCHANGED <<volumes, job, live>>, ClaimsGrow, NEW p \in Pods, NEW x,
             pod' = [pod EXCEPT ![p] = x], x.phase \notin {"bound", "running"}
      PROVE  PlaceInv'
  <2>1. \A q \in Pods : Runs(q)' => pod'[q] = pod[q]
    BY <1>5 DEF TypeOK
  <2> QED
    BY <1>5, <2>1, PlaceKept
<1>6. ASSUME NEW n \in Nodes, Reboot(n)
      PROVE  PlaceInv'
  <2>1. \A p \in Pods : Runs(p)' => Runs(p) /\ pod'[p].node = pod[p].node
    <3> TAKE p \in Pods
    <3>1. pod[p] \in PodStates
      BY DEF TypeOK
    <3>2. CASE pod[p].node = n /\ pod[p].phase = "running"
      BY <1>6, <3>1, <3>2 DEF Reboot, PodStates
    <3>3. CASE ~(pod[p].node = n /\ pod[p].phase = "running")
      <4>1. pod'[p] = pod[p]
        BY <1>6, <3>3 DEF Reboot
      <4> QED
        BY <4>1
    <3> QED
      BY <3>2, <3>3
  <2> QED
    BY <1>6, <2>1, PlaceKept, ClaimsSame DEF Reboot, claims
<1>7. ASSUME NEW p \in Pods, AdmitUnseen(p)
      PROVE  PlaceInv'
  <2>1. Stored(NoNode).phase = "pending"
    BY DEF Stored, NoPod
  <2> QED
    BY <1>5, <1>7, <2>1, ClaimsSame DEF AdmitUnseen, claims
<1>8. ASSUME NEW p \in Pods, PodStep(p)
      PROVE  PlaceInv'
  <2>0. pod[p] \in PodStates
    BY DEF TypeOK
  <2>1. ASSUME NEW r \in Replicas, AdmitRead(p, r)
        PROVE  PlaceInv'
    <3>1. /\ Stored(NoNode).phase = "pending"
          /\ \A u : [NoPod EXCEPT !.phase = "admitting", !.by = r, !.uuid = u].phase = "admitting"
      BY DEF Stored, NoPod
    <3> QED
      BY <1>5, <2>1, <3>1, ClaimsSame DEF AdmitRead, claims
  <2>2. ASSUME NEW n \in Nodes, AdmitPinned(p, n)
        PROVE  PlaceInv'
    <3>1. Stored(n).phase = "pending"
      BY DEF Stored, NoPod
    <3> QED
      BY <1>5, <2>2, <3>1, ClaimsSame DEF AdmitPinned, claims
  <2>3. ASSUME NEW n \in Nodes, Schedule(p, n)
        PROVE  PlaceInv'
    <3>1. [pod[p] EXCEPT !.phase = "reserved", !.node = n].phase = "reserved"
      BY <2>0 DEF PodStates
    <3>2. \A c \in Claims : /\ [claim[c] EXCEPT !.node = n].id = claim[c].id
                            /\ [claim[c] EXCEPT !.node = n].uuid = claim[c].uuid
      BY DEF TypeOK
    <3>3. \A c \in Claims : claim'[c].id = claim[c].id /\ claim'[c].uuid = claim[c].uuid
      BY <2>3, <3>2 DEF Schedule
    <3>4. ClaimsGrow
      BY <2>3, <3>3 DEF Schedule, ClaimsGrow
    <3> QED
      BY <1>5, <2>3, <3>1, <3>4 DEF Schedule
  <2>4. CASE Deny(p)
    BY <1>5, <2>4, ClaimsSame DEF Deny, claims, NoPod
  <2>5. CASE Unreserve(p)
    <3>1. [pod[p] EXCEPT !.phase = "pending", !.node = NoNode].phase = "pending"
      BY <2>0 DEF PodStates
    <3> QED
      BY <1>5, <2>5, <3>1, ClaimsSame DEF Unreserve, claims
  <2>6. CASE BindPod(p)
    <3>1. /\ pod'[p].node = pod[p].node
          /\ \A q \in Pods : q # p => pod'[q] = pod[q]
      BY <2>0, <2>6 DEF BindPod, TypeOK, PodStates
    <3>2. ClaimInv'
      BY <2>6 DEF BindPod, PlaceInv, ClaimInv, Known, claims
    <3>3. \A c \in ClaimsOf(p) :
             \E v \in VolumesOf(c) : v.node = pod[p].node /\ v.uuid = claim[c].uuid
      <4> TAKE c \in ClaimsOf(p)
      <4>1. PICK v \in VolumesOf(c) : v.node = pod[p].node
        BY <2>6 DEF BindPod, Fits
      <4>2. v.uuid = claim[c].uuid
        BY <4>1 DEF VolumesOf, PlaceInv, ClaimInv, Known
      <4> QED
        BY <4>1, <4>2
    <3>4. RunsWhereItsDisksAre'
      BY <2>6, <3>1, <3>3
      DEF BindPod, PlaceInv, RunsWhereItsDisksAre, VolumesOf, ClaimsOf, claims
    <3> QED
      BY <3>2, <3>4 DEF PlaceInv
  <2>7. CASE StartPod(p)
    <3>1. \A q \in Pods : Runs(q)' => Runs(q) /\ pod'[q].node = pod[q].node
      BY <2>0, <2>7 DEF StartPod, TypeOK, PodStates
    <3> QED
      BY <2>7, <3>1, PlaceKept, ClaimsSame DEF StartPod, claims
  <2> QED
    BY <1>8, <2>1, <2>2, <2>3, <2>4, <2>5, <2>6, <2>7 DEF PodStep
\* The provisioner.
<1>9. ASSUME NEW w \in Workers, ProvisionStep(w) \/ ProvisionFails(w)
      PROVE  PlaceInv'
  <2>0. job[w] # NoJob => job[w] \in Jobs /\ Known(job[w])
    BY DEF TypeOK, PlaceInv, ClaimInv
  <2>1. ASSUME NEW x, x # NoJob => Known(x),
               UNCHANGED <<claims, volumes, pod>>, job' = [job EXCEPT ![w] = x]
        PROVE  PlaceInv'
    <3>1. ClaimInv'
      BY <2>1 DEF PlaceInv, ClaimInv, Known, TypeOK, claims
    <3>2. RunsWhereItsDisksAre'
      BY <2>1 DEF PlaceInv, RunsWhereItsDisksAre, VolumesOf, ClaimsOf, claims
    <3> QED
      BY <3>1, <3>2 DEF PlaceInv
  <2>2. ASSUME NEW c \in Claims, CallProvision(w, c)
        PROVE  PlaceInv'
    <3> DEFINE x == [claim |-> c, id |-> claim[c].id, uuid |-> claim[c].uuid,
                     node |-> claim[c].node, path |-> NoUUID]
    <3>1. Known(x)
      BY BoundsAssumption DEF Known, TypeOK
    <3> QED
      BY <2>1, <2>2, <3>1 DEF CallProvision
  <2>3. CASE ReadDiskMap(w)
    <3> DEFINE x == [job[w] EXCEPT !.path = DiskInfo(job[w].node, job[w].uuid)]
    <3>1. x.claim = job[w].claim /\ x.id = job[w].id /\ x.uuid = job[w].uuid
      BY <2>0, <2>3 DEF ReadDiskMap, Jobs
    <3>2. Known(x)
      BY <2>0, <2>3, <3>1 DEF ReadDiskMap, Known
    <3> QED
      BY <2>1, <2>3, <3>2 DEF ReadDiskMap
  <2>4. CASE Reschedule(w)
    <3>1. \A c \in Claims : /\ [claim[c] EXCEPT !.node = NoNode].id = claim[c].id
                            /\ [claim[c] EXCEPT !.node = NoNode].uuid = claim[c].uuid
      BY DEF TypeOK
    <3>2. \/ claim' = [claim EXCEPT ![job[w].claim] = [claim[job[w].claim] EXCEPT !.node = NoNode]]
          \/ claim' = claim
      BY <2>4 DEF Reschedule
    <3>3. \A c \in Claims : claim'[c].id = claim[c].id /\ claim'[c].uuid = claim[c].uuid
      <4>1. job[w].claim \in Claims
        BY <2>0, <2>4 DEF Reschedule, Jobs
      <4> QED
        BY <3>1, <3>2, <4>1 DEF TypeOK
    <3>4. ClaimsGrow
      BY <2>4, <3>3 DEF Reschedule, ClaimsGrow
    <3>5. \A x \in Workers : job'[x] = job[x] \/ job'[x] = NoJob
      BY <2>4 DEF Reschedule, TypeOK
    <3> QED
      BY <2>4, <3>4, <3>5, PlaceKept DEF Reschedule
  <2>5. CASE CreateVolume(w)
    <3>1. \A x \in Workers : job'[x] # NoJob => job'[x] = job[x]
      BY <2>5 DEF CreateVolume, TypeOK
    <3>2. Known(NewVolume(job[w]))
      BY <2>0, <2>5 DEF CreateVolume, NewVolume, Known
    <3>3. volumes \subseteq volumes' /\ volumes' \subseteq volumes \cup {NewVolume(job[w])}
      BY <2>5 DEF CreateVolume
    <3>4. ClaimInv'
      BY <2>5, <3>1, <3>2, <3>3 DEF CreateVolume, PlaceInv, ClaimInv, Known, claims
    <3>5. RunsWhereItsDisksAre'
      BY <2>5, <3>3 DEF CreateVolume, PlaceInv, RunsWhereItsDisksAre, VolumesOf, ClaimsOf, claims
    <3> QED
      BY <3>4, <3>5 DEF PlaceInv
  <2>6. CASE ProvisionFails(w)
    BY <2>1, <2>6 DEF ProvisionFails
  <2> QED
    BY <1>9, <2>2, <2>3, <2>4, <2>5, <2>6 DEF ProvisionStep
\* All other steps.
<1>10. ASSUME NEW n \in Nodes, NodeEvent(n)
       PROVE  PlaceInv'
  BY <1>0, <1>6, <1>10 DEF NodeEvent, Hold, Publish, MoveDisk, Recreate
<1>11. ASSUME NEW r \in Replicas, InformerStep(r)
       PROVE  PlaceInv'
  BY <1>0, <1>11 DEF InformerStep, SyncClaim, SyncNode
<1>12. CASE UNCHANGED vars
  BY <1>0, <1>12 DEF vars
<1>13. CASE UserStep
  BY <1>1, <1>2, <1>3, <1>4, <1>7, <1>13 DEF UserStep
<1> QED
  BY <1>8, <1>9, <1>10, <1>11, <1>12, <1>13 DEF Next

\* A pod only ever runs on a node with a volume of the right disk for each of
\* its claims, whatever the webhook and the scheduler knew when they chose it.
THEOREM AlwaysRunsWhereItsDisksAre == Spec => []RunsWhereItsDisksAre
<1>1. PlaceInv => RunsWhereItsDisksAre
  BY DEF PlaceInv
<1> QED
  BY TypeInit, TypeNext, PlaceInit, PlaceNext, <1>1, PTL DEF Spec

-----------------------------------------------------------------------------
(***************************************************************************)
(* A pod starts on its disks.                                              *)
(***************************************************************************)

LEMMA PathInit == Init => PathInv
  BY DEF Init, PathInv

\* The entries of a published map are mounted where it says.
LEMMA PathNext ==
    ASSUME "swap" \notin FaultKinds
    PROVE  TypeInv /\ PathInv /\ [Next]_vars => PathInv'
<1> SUFFICES ASSUME TypeInv, PathInv, [Next]_vars
             PROVE  PathInv'
  OBVIOUS
<1> TypeOK
  BY DEF TypeInv
<1>0. CASE UNCHANGED <<held, offered, published, annotation>>
  BY <1>0 DEF PathInv, Graph, Keys
<1>1. ASSUME NEW n \in Nodes, NEW u \in UUIDs, NEW path \in UUIDs, Hold(n, u, path)
      PROVE  PathInv'
  <2>1. path = u
    BY <1>1 DEF Hold, Fault
  <2>2. /\ held' = [held EXCEPT ![n] = held[n] \cup {<<u, u>>}]
        /\ UNCHANGED <<offered, published, annotation>>
    BY <1>1, <2>1 DEF Hold
  <2> QED
    BY <2>2 DEF PathInv, TypeOK, Graph, Keys
<1>2. ASSUME NEW n \in Nodes, NEW map \in DiskMaps, Publish(n, map)
      PROVE  PathInv'
  <2>1. UNCHANGED held
    BY <1>2 DEF Publish
  <2>2. \A o \in offered' : o[2] = o[3]
    <3>1. \A u \in Keys(map) : u = map[u]
      <4> TAKE u \in Keys(map)
      <4>1. <<u, map[u]>> \in held[n]
        BY <1>2 DEF Publish, Graph
      <4> QED
        BY <4>1 DEF PathInv
    <3> QED
      BY <1>2, <3>1 DEF Publish, PathInv
  <2>3. \A m \in Nodes : published'[m] => Graph(annotation'[m]) \subseteq held[m]
    BY <1>2 DEF Publish, PathInv, TypeOK, Graph, Keys
  <2> QED
    BY <2>1, <2>2, <2>3 DEF PathInv, Graph, Keys
<1>3. ASSUME NEW n \in Nodes, Reboot(n)
      PROVE  PathInv'
  BY <1>3 DEF Reboot, PathInv, TypeOK, Graph, Keys
<1>4. ASSUME NEW n \in Nodes, Recreate(n)
      PROVE  PathInv'
  <2>1. Graph(EmptyMap) = {}
    BY DEF Graph, Keys, EmptyMap
  <2>2. \A m \in Nodes : annotation'[m] = IF m = n THEN EmptyMap ELSE annotation[m]
    BY <1>4 DEF Recreate, TypeOK
  <2>3. \A m \in Nodes : published'[m] => Graph(annotation'[m]) \subseteq held[m]
    BY <1>4, <2>1, <2>2 DEF Recreate, PathInv
  <2> QED
    BY <1>4, <2>3 DEF Recreate, PathInv, Graph, Keys
<1>5. ASSUME NEW n \in Nodes, NodeEvent(n)
      PROVE  PathInv'
  BY <1>0, <1>1, <1>2, <1>3, <1>4, <1>5 DEF NodeEvent, MoveDisk
<1>6. CASE UserStep
  BY <1>0, <1>6
  DEF UserStep, CreateClaim, DeleteClaim, DeleteVolume, AdmitUnseen, DeletePod, nodes
<1>7. ASSUME NEW r \in Replicas, InformerStep(r)
      PROVE  PathInv'
  BY <1>0, <1>7 DEF InformerStep, SyncClaim, SyncNode, nodes
<1>8. ASSUME NEW p \in Pods, PodStep(p)
      PROVE  PathInv'
  BY <1>0, <1>8
  DEF PodStep, AdmitRead, AdmitPinned, Schedule, Deny, Unreserve, BindPod, StartPod, nodes
<1>9. ASSUME NEW w \in Workers, ProvisionStep(w) \/ ProvisionFails(w)
      PROVE  PathInv'
  BY <1>0, <1>9
  DEF ProvisionStep, CallProvision, ReadDiskMap, Reschedule, CreateVolume, ProvisionFails, nodes
<1>10. CASE UNCHANGED vars
  BY <1>0, <1>10 DEF vars, nodes
<1> QED
  BY <1>5, <1>6, <1>7, <1>8, <1>9, <1>10 DEF Next

\* The path in a volume was offered, so it is the directory of its disk; the
\* node has published this disk since it booted, so the disk is mounted there.
LEMMA StartsMounted ==
    ASSUME TypeInv, OfferInv, PlaceInv, PathInv, [Next]_vars
    PROVE  \A p \in Pods : Starts(p) /\ Scanned(p) => pod'[p].onDisk
<1> TypeOK
  BY DEF TypeInv
<1> SUFFICES ASSUME NEW p \in Pods, Starts(p), Scanned(p)
             PROVE  pod'[p].onDisk
  OBVIOUS
<1> DEFINE n == pod[p].node
<1>0. pod[p].phase = "bound" /\ pod'[p].phase = "running" /\ pod[p] \in PodStates
  BY DEF Starts, TypeOK
<1>1. StartPod(p)
  <2>1. pod' # pod
    BY <1>0
  <2>2. ~UserStep
    <3>1. Stored(NoNode).phase = "pending" /\ NoPod.phase = "absent"
      BY DEF Stored, NoPod
    <3>2. \A q \in Pods : ~AdmitUnseen(q)
      BY <1>0, <3>1 DEF AdmitUnseen, TypeOK
    <3>3. \A q \in Pods : \A gone \in SUBSET ClaimsOf(q) : ~DeletePod(q, gone)
      BY <1>0, <3>1 DEF DeletePod, TypeOK
    <3> QED
      BY <2>1, <3>2, <3>3 DEF UserStep, CreateClaim, DeleteClaim, DeleteVolume
  <2>3. \A m \in Nodes : ~NodeEvent(m)
    <3>1. \A m \in Nodes : Reboot(m) => pod'[p].phase # "running"
      <4> SUFFICES ASSUME NEW m \in Nodes, Reboot(m)
                   PROVE  pod'[p].phase # "running"
        OBVIOUS
      <4>1. pod'[p] = pod[p]
        BY <1>0 DEF Reboot
      <4> QED
        BY <1>0, <4>1
    <3> QED
      BY <1>0, <2>1, <3>1 DEF NodeEvent, Hold, Publish, MoveDisk, Recreate
  <2>4. \A r \in Replicas : ~InformerStep(r)
    BY <2>1 DEF InformerStep, SyncClaim, SyncNode
  <2>5. \A w \in Workers : ~ProvisionStep(w) /\ ~ProvisionFails(w)
    BY <2>1 DEF ProvisionStep, CallProvision, ReadDiskMap, Reschedule, CreateVolume, ProvisionFails
  <2>6. ~UNCHANGED vars
    BY <2>1 DEF vars
  <2>7. PICK q \in Pods : PodStep(q)
    BY <2>2, <2>3, <2>4, <2>5, <2>6 DEF Next
  <2>8. q = p
    <3>1. \E x : pod' = [pod EXCEPT ![q] = x]
      BY <2>7 DEF PodStep, AdmitRead, AdmitPinned, Schedule, Deny, Unreserve, BindPod, StartPod
    <3> QED
      BY <1>0, <3>1 DEF TypeOK
  <2>9. NoPod.phase = "absent"
    BY DEF NoPod
  <2> QED
    BY <1>0, <2>7, <2>8, <2>9
    DEF PodStep, AdmitRead, AdmitPinned, Schedule, Deny, Unreserve, BindPod
<1>2. \A c \in ClaimsOf(p) : \E v \in VolumesOf(c) : <<v.uuid, v.path>> \in held[n]
  <2> TAKE c \in ClaimsOf(p)
  <2>1. PICK v \in VolumesOf(c) : v.node = n /\ v.uuid = claim[c].uuid
    BY <1>0 DEF PlaceInv, RunsWhereItsDisksAre
  <2>2. v \in Volumes /\ <<v.node, v.uuid, v.path>> \in offered
    BY <2>1 DEF OfferInv, VolumesWereOffered, VolumesOf, TypeOK
  <2>3. v.path = v.uuid
    BY <2>2 DEF PathInv
  <2>4. n \in Nodes
    BY <2>1, <2>2 DEF Volumes
  <2>5. <<v.uuid, annotation[n][v.uuid]>> \in held[n]
    BY <2>1, <2>4 DEF Scanned, PathInv, Graph
  <2>6. annotation[n][v.uuid] = v.uuid
    BY <2>4, <2>5 DEF PathInv
  <2> QED
    BY <2>3, <2>5, <2>6
<1>3. pod'[p] = [pod[p] EXCEPT !.phase = "running", !.onDisk = TRUE]
  BY <1>1, <1>2 DEF StartPod, TypeOK
<1> QED
  BY <1>0, <1>3 DEF PodStates

\* A pod that starts on a node which was scanned since it booted and lists its
\* disks starts on these disks, provided no kernel name changes hands while the
\* scanner mounts.
THEOREM AlwaysStartsOnScannedDisk ==
    ASSUME "swap" \notin FaultKinds
    PROVE  Spec => StartsOnScannedDisk
<1>1. TypeInv /\ OfferInv /\ PlaceInv /\ PathInv /\ [Next]_vars
        => [\A p \in Pods : Starts(p) /\ Scanned(p) => pod'[p].onDisk]_vars
  BY StartsMounted
<1> QED
  BY TypeInit, TypeNext, OfferInit, OfferNext, PlaceInit, PlaceNext, PathInit, PathNext,
     <1>1, PTL
  DEF Spec, StartsOnScannedDisk

-----------------------------------------------------------------------------
(***************************************************************************)
(* A pod is pinned to a node that has published its disk.                  *)
(***************************************************************************)

LEMMA LabelInit == Init => LabelInv
  BY DEF Init, LabelInv, Offers

\* What is offered stays offered.
LEMMA OffersGrow ==
    ASSUME [Next]_vars
    PROVE  offered \subseteq offered'
  BY DEF Next, NodeEvent, UserStep, InformerStep, PodStep, ProvisionStep, vars, nodes,
         Hold, Publish, MoveDisk, Reboot, Recreate, CreateClaim, DeleteClaim,
         DeleteVolume, AdmitUnseen, DeletePod, SyncClaim, SyncNode, AdmitRead,
         AdmitPinned, Schedule, Deny, Unreserve, BindPod, StartPod, CallProvision,
         ReadDiskMap, Reschedule, CreateVolume, ProvisionFails

LEMMA LabelNext == TypeInv /\ LabelInv /\ [Next]_vars => LabelInv'
<1> SUFFICES ASSUME TypeInv, LabelInv, [Next]_vars
             PROVE  LabelInv'
  OBVIOUS
<1> TypeOK
  BY DEF TypeInv
<1>0. \A n \in Nodes : Offers(n) \subseteq Offers(n)'
  BY OffersGrow DEF Offers
<1>1. ASSUME NEW n \in Nodes, NEW map \in DiskMaps, Publish(n, map)
      PROVE  LabelInv'
  <2>1. Keys(map) \subseteq Offers(n)'
    <3> SUFFICES ASSUME NEW u \in Keys(map) PROVE <<n, u, map[u]>> \in offered' /\ map[u] \in UUIDs
      BY DEF Offers, Keys
    <3> QED
      BY <1>1 DEF Publish, Keys, DiskMaps
  <2>2. \A m \in Nodes : labels'[m] = IF m = n THEN labels[n] \cup Keys(map) ELSE labels[m]
    BY <1>1 DEF Publish, PatchedLabels, TypeOK
  <2>3. UNCHANGED seenLabels
    BY <1>1 DEF Publish, caches
  <2> QED
    BY <1>0, <2>1, <2>2, <2>3 DEF LabelInv
<1>2. ASSUME NEW n \in Nodes, Recreate(n)
      PROVE  LabelInv'
  <2>1. \A m \in Nodes : labels'[m] \subseteq labels[m]
    BY <1>2 DEF Recreate, TypeOK
  <2>2. UNCHANGED seenLabels
    BY <1>2 DEF Recreate, caches
  <2> QED
    BY <1>0, <2>1, <2>2 DEF LabelInv
<1>3. ASSUME NEW r \in Replicas, NEW n \in Nodes, SyncNode(r, n)
      PROVE  LabelInv'
  <2>1. \A q \in Replicas, m \in Nodes : seenLabels'[q][m] \in {seenLabels[q][m], labels[m]}
    BY <1>3 DEF SyncNode, TypeOK
  <2>2. UNCHANGED labels
    BY <1>3 DEF SyncNode, nodes
  <2> QED
    BY <1>0, <2>1, <2>2 DEF LabelInv
\* All other steps.
<1>4. CASE UNCHANGED <<labels, seenLabels>>
  BY <1>0, <1>4 DEF LabelInv
<1>5. ASSUME NEW n \in Nodes, NodeEvent(n)
      PROVE  LabelInv'
  BY <1>1, <1>2, <1>4, <1>5 DEF NodeEvent, Hold, MoveDisk, Reboot, caches
<1>6. CASE UserStep
  BY <1>4, <1>6 DEF UserStep, CreateClaim, DeleteClaim, DeleteVolume, AdmitUnseen,
                    DeletePod, nodes, caches
<1>7. ASSUME NEW r \in Replicas, InformerStep(r)
      PROVE  LabelInv'
  BY <1>3, <1>4, <1>7 DEF InformerStep, SyncClaim, nodes
<1>8. ASSUME NEW p \in Pods, PodStep(p)
      PROVE  LabelInv'
  BY <1>4, <1>8 DEF PodStep, AdmitRead, AdmitPinned, Schedule, Deny, Unreserve, BindPod,
                    StartPod, nodes, caches
<1>9. ASSUME NEW w \in Workers, ProvisionStep(w) \/ ProvisionFails(w)
      PROVE  LabelInv'
  BY <1>4, <1>9 DEF ProvisionStep, CallProvision, ReadDiskMap, Reschedule, CreateVolume,
                    ProvisionFails, nodes, caches
<1>10. CASE UNCHANGED vars
  BY <1>4, <1>10 DEF vars, nodes, caches
<1> QED
  BY <1>5, <1>6, <1>7, <1>8, <1>9, <1>10 DEF Next

\* One more pod state, which is none of admission or names a replica.
LEMMA AdmittedByUpdate ==
    ASSUME TypeOK, AdmittedBy, NEW q \in Pods, NEW x,
           pod' = [pod EXCEPT ![q] = x],
           x.phase = "admitting" => x.by \in Replicas
    PROVE  AdmittedBy'
<1> SUFFICES ASSUME NEW p \in Pods, pod'[p].phase = "admitting"
             PROVE  pod'[p].by \in Replicas
  BY DEF AdmittedBy
<1>1. CASE p = q
  BY <1>1 DEF TypeOK
<1>2. CASE p # q
  BY <1>2 DEF TypeOK, AdmittedBy
<1> QED
  BY <1>1, <1>2

LEMMA AdmittedByInit == Init => AdmittedBy
  BY DEF Init, AdmittedBy, NoPod

LEMMA AdmittedByNext == TypeInv /\ AdmittedBy /\ [Next]_vars => AdmittedBy'
<1> SUFFICES ASSUME TypeInv, AdmittedBy, [Next]_vars
             PROVE  AdmittedBy'
  OBVIOUS
<1> TypeOK
  BY DEF TypeInv
<1>1. CASE UNCHANGED pod
  BY <1>1 DEF AdmittedBy
<1>2. ASSUME NEW n \in Nodes, Reboot(n)
      PROVE  AdmittedBy'
  <2> SUFFICES ASSUME NEW p \in Pods, pod'[p].phase = "admitting"
               PROVE  pod'[p].by \in Replicas
    BY DEF AdmittedBy
  <2>1. pod[p] \in PodStates
    BY DEF TypeOK
  <2>2. pod'[p] = pod[p]
    BY <1>2, <2>1 DEF Reboot, PodStates
  <2> QED
    BY <2>2 DEF AdmittedBy
<1>3. ASSUME NEW n \in Nodes, NodeEvent(n)
      PROVE  AdmittedBy'
  BY <1>1, <1>2, <1>3 DEF NodeEvent, Hold, Publish, MoveDisk, Recreate
<1>4. NoPod.phase = "absent"
  BY DEF NoPod
<1>5. \A n \in Nodes \cup {NoNode} : Stored(n).phase = "pending"
  BY DEF Stored, NoPod
<1>6. ASSUME NEW q \in Pods, AdmitUnseen(q) \/ \E gone \in SUBSET ClaimsOf(q) : DeletePod(q, gone)
      PROVE  AdmittedBy'
  <2>1. CASE pod' = [pod EXCEPT ![q] = Stored(NoNode)]
    BY <1>5, <2>1, AdmittedByUpdate
  <2>2. CASE pod' = [pod EXCEPT ![q] = NoPod]
    BY <1>4, <2>2, AdmittedByUpdate
  <2> QED
    BY <1>6, <2>1, <2>2 DEF AdmitUnseen, DeletePod
<1>7. CASE UserStep
  BY <1>1, <1>6, <1>7 DEF UserStep, CreateClaim, DeleteClaim, DeleteVolume
<1>8. ASSUME NEW q \in Pods, NEW r \in Replicas, AdmitRead(q, r)
      PROVE  AdmittedBy'
  <2> DEFINE u == DiskUUIDForPod(r, q)
             y == [NoPod EXCEPT !.phase = "admitting", !.by = r, !.uuid = u]
  <2>1. y.by = r
    BY DEF NoPod
  <2>2. pod' = [pod EXCEPT ![q] = IF u = NoUUID THEN Stored(NoNode) ELSE y]
    BY <1>8 DEF AdmitRead
  <2> HIDE DEF y, u
  <2>3. CASE u = NoUUID
    BY <1>5, <2>2, <2>3, AdmittedByUpdate
  <2>4. CASE u # NoUUID
    BY <2>1, <2>2, <2>4, AdmittedByUpdate
  <2> QED
    BY <2>3, <2>4
<1>9. ASSUME NEW q \in Pods, NEW n \in Nodes, AdmitPinned(q, n)
      PROVE  AdmittedBy'
  BY <1>5, <1>9, AdmittedByUpdate DEF AdmitPinned
<1>10. ASSUME NEW q \in Pods, NEW n \in Nodes, Schedule(q, n)
       PROVE  AdmittedBy'
  <2> DEFINE y == [pod[q] EXCEPT !.phase = "reserved", !.node = n]
  <2>1. y.phase = "reserved"
    BY DEF TypeOK, PodStates
  <2>2. pod' = [pod EXCEPT ![q] = y]
    BY <1>10 DEF Schedule
  <2> HIDE DEF y
  <2> QED
    BY <2>1, <2>2, AdmittedByUpdate
<1>11. ASSUME NEW q \in Pods, Deny(q)
       PROVE  AdmittedBy'
  BY <1>4, <1>11, AdmittedByUpdate DEF Deny
<1>12. ASSUME NEW q \in Pods, Unreserve(q)
       PROVE  AdmittedBy'
  <2> DEFINE y == [pod[q] EXCEPT !.phase = "pending", !.node = NoNode]
  <2>1. y.phase = "pending"
    BY DEF TypeOK, PodStates
  <2>2. pod' = [pod EXCEPT ![q] = y]
    BY <1>12 DEF Unreserve
  <2> HIDE DEF y
  <2> QED
    BY <2>1, <2>2, AdmittedByUpdate
<1>13. ASSUME NEW q \in Pods, BindPod(q) \/ StartPod(q)
       PROVE  AdmittedBy'
  <2>1. \A p \in Pods : pod[p] \in PodStates
    BY DEF TypeOK
  <2>2. \A p \in Pods : p # q => pod'[p] = pod[p]
    BY <1>13 DEF BindPod, StartPod, TypeOK
  <2>3. pod'[q].phase \in {"bound", "running"}
    <3>1. CASE BindPod(q)
      BY <2>1, <3>1 DEF BindPod, TypeOK, PodStates
    <3>2. ASSUME StartPod(q)
          PROVE  pod'[q].phase = "running"
      <4> DEFINE ready == \A c \in ClaimsOf(q) : \E v \in VolumesOf(c) :
                             <<v.uuid, v.path>> \in held[pod[q].node]
      <4>1. pod' = [pod EXCEPT ![q] = [@ EXCEPT !.phase = "running", !.onDisk = ready]]
        BY <3>2 DEF StartPod
      <4> HIDE DEF ready
      <4> QED
        BY <2>1, <4>1 DEF TypeOK, PodStates
    <3> QED
      BY <1>13, <3>1, <3>2
  <2> QED
    BY <2>2, <2>3 DEF AdmittedBy
<1>14. ASSUME NEW q \in Pods, PodStep(q)
       PROVE  AdmittedBy'
  BY <1>8, <1>9, <1>10, <1>11, <1>12, <1>13, <1>14 DEF PodStep
<1>15. ASSUME NEW r \in Replicas, InformerStep(r)
       PROVE  AdmittedBy'
  BY <1>1, <1>15 DEF InformerStep, SyncClaim, SyncNode
<1>16. ASSUME NEW w \in Workers, ProvisionStep(w) \/ ProvisionFails(w)
       PROVE  AdmittedBy'
  BY <1>1, <1>16 DEF ProvisionStep, CallProvision, ReadDiskMap, Reschedule, CreateVolume,
                     ProvisionFails
<1>17. CASE UNCHANGED vars
  BY <1>1, <1>17 DEF vars
<1> QED
  BY <1>3, <1>7, <1>14, <1>15, <1>16, <1>17 DEF Next

\* Only the webhook takes a pod from admission into the store.
LEMMA OnlyPinningStores ==
    ASSUME TypeOK, [Next]_vars, NEW p \in Pods,
           pod[p].phase = "admitting", pod'[p].phase = "pending"
    PROVE  \E n \in Nodes : AdmitPinned(p, n)
<1>1. ASSUME NEW q \in Pods, \E x : pod' = [pod EXCEPT ![q] = x], p # q
      PROVE  FALSE
  <2>1. pod'[p] = pod[p]
    BY <1>1 DEF TypeOK
  <2> QED
    BY <2>1
<1>2. pod' # pod
  OBVIOUS
<1>3. ASSUME NEW n \in Nodes, Reboot(n) PROVE FALSE
  BY <1>3 DEF Reboot, TypeOK
<1>4. ASSUME NEW n \in Nodes, NodeEvent(n) PROVE FALSE
  BY <1>2, <1>3, <1>4 DEF NodeEvent, Hold, Publish, MoveDisk, Recreate
<1>5. CASE UserStep
  <2>1. PICK q \in Pods : AdmitUnseen(q) \/ \E gone \in SUBSET ClaimsOf(q) : DeletePod(q, gone)
    BY <1>2, <1>5 DEF UserStep, CreateClaim, DeleteClaim, DeleteVolume
  <2>2. p = q
    BY <1>1, <2>1 DEF AdmitUnseen, DeletePod
  <2>3. NoPod.phase = "absent"
    BY DEF NoPod
  <2> QED
    BY <2>1, <2>2, <2>3 DEF AdmitUnseen, DeletePod, IsStored
<1>6. ASSUME NEW q \in Pods, PodStep(q)
      PROVE  \E n \in Nodes : AdmitPinned(p, n)
  <2>1. \E x : pod' = [pod EXCEPT ![q] = x]
    BY <1>6 DEF PodStep, AdmitRead, AdmitPinned, Schedule, Deny, Unreserve, BindPod, StartPod
  <2>2. p = q
    BY <1>1, <2>1
  <2>3. NoPod.phase = "absent"
    BY DEF NoPod
  <2>4. ~Deny(p)
    BY <2>3 DEF Deny, TypeOK
  <2>5. \A r \in Replicas : ~AdmitRead(p, r)
    BY <2>3 DEF AdmitRead
  <2> QED
    BY <1>6, <2>2, <2>4, <2>5 DEF PodStep, Schedule, Unreserve, BindPod, StartPod
<1>7. ASSUME NEW r \in Replicas, InformerStep(r) PROVE FALSE
  BY <1>2, <1>7 DEF InformerStep, SyncClaim, SyncNode
<1>8. ASSUME NEW w \in Workers, ProvisionStep(w) \/ ProvisionFails(w) PROVE FALSE
  BY <1>2, <1>8 DEF ProvisionStep, CallProvision, ReadDiskMap, Reschedule, CreateVolume,
                    ProvisionFails
<1> QED
  BY <1>2, <1>4, <1>5, <1>6, <1>7, <1>8 DEF Next, vars

LEMMA PinsWhereOffered ==
    ASSUME TypeInv, LabelInv, AdmittedBy, [Next]_vars, NEW p \in Pods,
           pod[p].phase = "admitting", pod'[p].phase = "pending"
    PROVE  \E path \in UUIDs : <<pod'[p].selector, pod[p].uuid, path>> \in offered
<1>0. TypeOK
  BY DEF TypeInv
<1>1. PICK n \in Nodes : AdmitPinned(p, n)
  BY <1>0, OnlyPinningStores
<1> DEFINE r == pod[p].by
           u == pod[p].uuid
<1>2. u \in seenLabels[r][n]
  BY <1>1 DEF AdmitPinned, NodesForUUID
<1>3. pod'[p].selector = n
  BY <1>0, <1>1 DEF AdmitPinned, Stored, TypeOK
<1>4. r \in Replicas
  BY DEF AdmittedBy
<1> QED
  BY <1>2, <1>3, <1>4 DEF LabelInv, Offers

\* The webhook pins a pod only to a node that has published the disk of the
\* pod's claim, however old the labels it goes by are.
THEOREM AlwaysPinnedWhereOffered == Spec => PinnedWhereOffered
<1>1. TypeInv /\ LabelInv /\ AdmittedBy /\ [Next]_vars
        => [\A p \in Pods :
               pod[p].phase = "admitting" /\ pod'[p].phase = "pending" =>
                   \E path \in UUIDs : <<pod'[p].selector, pod[p].uuid, path>> \in offered]_vars
  BY PinsWhereOffered
<1> QED
  BY TypeInit, TypeNext, LabelInit, LabelNext, AdmittedByInit, AdmittedByNext, <1>1, PTL
  DEF Spec, PinnedWhereOffered
=============================================================================
