--------------------- MODULE NodeScannerRefinementProofs ---------------------
(***************************************************************************)
(* Proofs that the node scanner implements NodePublication, that it mounts *)
(* each disk once and at its own path, and that it mounts only what is its *)
(* own, for any number of disks, names, UUIDs and faults.                  *)
(***************************************************************************)
EXTENDS NodeScannerProofs

Held == {<<m.uuid, m.target>> : m \in mounts}

\* The mapping of the invariant and of the abstract module are the same.
LEMMA SameMaps ==
    /\ \A map : Publication!Keys(map) = Keys(map)
    /\ Publication!EmptyMap = EmptyMap
    /\ Publication!DiskMaps = DiskMaps
  BY DEF Publication!Keys, Keys, Publication!EmptyMap, EmptyMap,
         Publication!DiskMaps, DiskMaps

LEMMA InitRefines == Init => Publication!Init
<1> SUFFICES ASSUME Init PROVE Publication!Init
  OBVIOUS
<1>1. Held = {}
  BY DEF Init, Held
<1> QED
  BY <1>1, SameMaps DEF Init, Publication!Init, Held

\* A truthful map is one whose entries are held.
LEMMA TruthfulMapIsHeld ==
    ASSUME NEW map \in DiskMaps, TruthfulMap(map)
    PROVE  Publication!Graph(map) \subseteq Held
<1> SUFFICES ASSUME NEW u \in Keys(map) PROVE <<u, map[u]>> \in Held
  BY SameMaps DEF Publication!Graph
<1> QED
  BY DEF TruthfulMap, Held

LEMMA AttachRefines ==
    ASSUME TruthInv, AttachDevice
    PROVE  \E u \in UUIDs, path \in UUIDs : Publication!Hold(u, path)
<1> DEFINE d == slot[job.dev]
           u == fs[d].uuid
<1>1. TypeOK /\ job.uuid \in UUIDs /\ job.dev \in Devs
  BY JobInProgress DEF TruthInv, AttachDevice, TypeOK
<1>2. u \in UUIDs
  BY <1>1, MountableHasUUID DEF AttachDevice, CanAttach, Present, TypeOK
<1>3. \A pair \in Held : pair[2] # job.uuid
  BY DEF TruthInv, AttachDevice, AttachTargetFree, AlreadyMounted, Held
<1>4. Held' = Held \cup {<<u, job.uuid>>}
  <2> DEFINE new == [target |-> job.uuid, dev |-> job.dev, disk |-> d, uuid |-> u]
  <2>1. mounts' = mounts \cup {new}
    BY DEF AttachDevice
  <2>2. <<new.uuid, new.target>> = <<u, job.uuid>>
    OBVIOUS
  <2>3. \A pair : pair \in Held' <=> pair \in Held \/ pair = <<u, job.uuid>>
    <3> HIDE DEF new
    <3> QED
      BY <2>1, <2>2 DEF Held
  <2> QED
    BY <2>3
<1>5. UNCHANGED <<labels, annotation, published>>
  BY DEF AttachDevice, node
<1> QED
  BY <1>1, <1>2, <1>3, <1>4, <1>5 DEF Publication!Hold, Held

LEMMA PatchRefines ==
    ASSUME TruthInv, PatchNode
    PROVE  \E map \in DiskMaps : Publication!Publish(map)
<1>1. diskMap \in DiskMaps /\ Publication!Graph(diskMap) \subseteq Held
  BY TruthfulMapIsHeld DEF TruthInv, TypeOK
<1>2. labels' = labels \cup Keys(diskMap)
  BY DEF TruthInv, NothingStale, PatchNode, PatchedLabels
<1>3. Held' = Held /\ annotation' = diskMap /\ published' = TRUE
  BY DEF PatchNode, PatchedAnnotation, machine, Held
<1>4. Publication!Publish(diskMap)
  BY <1>1, <1>2, <1>3, SameMaps DEF Publication!Publish, Held
<1> QED
  BY <1>1, <1>4

LEMMA RebootRefines == Reboot => Publication!Reboot
<1> SUFFICES ASSUME Reboot PROVE Publication!Reboot
  OBVIOUS
<1>1. Held' = {}
  BY DEF Reboot, Held
<1> QED
  BY <1>1 DEF Reboot, Publication!Reboot, node, Held

LEMMA RecreateRefines == NodeRecreated => Publication!Recreate
  BY SameMaps DEF NodeRecreated, Publication!Recreate, machine, history

\* Every other step leaves the publication and the mounts alone.
LEMMA OtherStepsStutter ==
    ASSUME [Next]_vars
    PROVE  AttachDevice \/ PatchNode \/ Reboot \/ NodeRecreated
           \/ UNCHANGED <<mounts, labels, annotation, published>>
  BY DEF Next, ScanStep, Environment, vars, machine, node, history,
         ScanStart, InitFails, FormatTarget, FormatFails, ScanUnmounted,
         ScanUnmountedFails, ResolveFails, ResolveUUID, PassRootGuard,
         RefuseRootDisk, CheckDevice, RefuseDevice, AttachFails, ScanMounted,
         ScanMountedFails, LookupUUID, RememberUUIDs, PatchFails, Restart, Crash,
         Unplug, UdevCatchUp, Plug

LEMMA NextRefines ==
    ASSUME TruthInv, [Next]_vars
    PROVE  [Publication!Next]_(Publication!vars)
<1>1. CASE AttachDevice
  BY <1>1, AttachRefines DEF Publication!Next
<1>2. CASE PatchNode
  BY <1>2, PatchRefines, SameMaps DEF Publication!Next
<1>3. CASE Reboot
  BY <1>3, RebootRefines DEF Publication!Next
<1>4. CASE NodeRecreated
  BY <1>4, RecreateRefines DEF Publication!Next
<1>5. CASE UNCHANGED <<mounts, labels, annotation, published>>
  BY <1>5 DEF Publication!vars
<1> QED
  BY <1>1, <1>2, <1>3, <1>4, <1>5, OtherStepsStutter

\* As long as udevadm settle does not fail, the scanner keeps the promise the
\* webhook and the provisioner rely on.
THEOREM ImplementsPublication ==
    ASSUME "settle" \notin FaultKinds
    PROVE  Spec => PublicationSpec
<1>1. TruthInv /\ [Next]_vars => TruthInv'
  BY NextTruthInv
<1>2. TruthInv /\ [Next]_vars => [Publication!Next]_(Publication!vars)
  BY NextRefines
<1> QED
  BY <1>1, <1>2, InitTruthInv, InitRefines, PTL DEF Spec, PublicationSpec, Publication!Spec

-----------------------------------------------------------------------------
(***************************************************************************)
(* Each disk is mounted once, at its own path, unless it was exposed, as   *)
(* long as udevadm settle does not fail.                                   *)
(***************************************************************************)

\* What Init has still to format is raw, or was exposed.
TargetsRaw ==
    pc = "format" =>
        \A dev \in toFormat :
            Present(dev) => slot[dev] \in exposed \/ fs[slot[dev]] = Blank

\* Mount works on the disk its UUID belongs to, or on one that was exposed.
JobMatches ==
    pc \in {"guard", "check", "attach"} /\ Present(job.dev) =>
        slot[job.dev] \in exposed \/ fs[slot[job.dev]].uuid = job.uuid

\* A mount, dead or live, of a disk that was not exposed still names what the
\* disk carries.
MountsKeepUUID ==
    \A m \in mounts : m.disk \in exposed \/ fs[m.disk].uuid = m.uuid

OwnPathInv ==
    /\ TruthInv
    /\ TargetsRaw
    /\ JobMatches
    /\ MountsKeepUUID
    /\ MountedAtOwnPath

\* The steps that leave the machine alone.
LEMMA QuietStepOwnPathInv ==
    ASSUME OwnPathInv, TruthInv', UNCHANGED <<slot, fs, seen, mounts>>,
           exposed \subseteq exposed',
           pc' = "format" /\ pc # "format" =>
               \A dev \in toFormat' : fs[slot[dev]] = Blank \/ slot[dev] \in exposed',
           pc' = "format" /\ pc = "format" => toFormat' \subseteq toFormat,
           pc' \in {"guard", "check", "attach"} =>
               \/ pc \in {"guard", "check", "attach"} /\ job' = job
               \/ Present(job'.dev) => fs[slot[job'.dev]].uuid = job'.uuid
    PROVE  OwnPathInv'
<1>1. TargetsRaw'
  <2>1. CASE pc' = "format" /\ pc # "format"
    BY <2>1 DEF TargetsRaw
  <2>2. CASE pc' = "format" /\ pc = "format"
    BY <2>2 DEF OwnPathInv, TargetsRaw, Present
  <2> QED
    BY <2>1, <2>2 DEF TargetsRaw
<1>2. JobMatches'
  BY DEF OwnPathInv, JobMatches, Present
<1>3. MountsKeepUUID' /\ MountedAtOwnPath'
  BY DEF OwnPathInv, MountsKeepUUID, MountedAtOwnPath
<1> QED
  BY <1>1, <1>2, <1>3 DEF OwnPathInv

LEMMA FormatOwnPathInv ==
    ASSUME OwnPathInv, TruthInv', NEW dev \in Devs, FormatTarget(dev)
    PROVE  OwnPathInv'
<1> DEFINE d == slot[dev]
<1>1. PICK u \in UUIDs : fs' = [fs EXCEPT ![d] = [uuid |-> u, kind |-> "ours"]]
  BY DEF FormatTarget
<1>2. TypeOK /\ Injective(slot) /\ d \in Disks /\ (d \in exposed \/ fs[d] = Blank)
      /\ d # NoDisk
  BY DEF FormatTarget, IsFirst, Present, OwnPathInv, TruthInv, TypeOK, TargetsRaw
<1>3. UNCHANGED <<slot, mounts, exposed>> /\ pc = "format" /\ pc' = "format"
      /\ toFormat' = toFormat \ {dev}
  BY DEF FormatTarget
<1>4. \A e \in Disks : e # d => fs'[e] = fs[e]
  BY <1>1, <1>2 DEF TypeOK
<1>5. TargetsRaw'
  <2> SUFFICES ASSUME NEW e \in toFormat', slot[e] # NoDisk
               PROVE  slot[e] \in exposed \/ fs'[slot[e]] = Blank
    BY <1>3 DEF TargetsRaw, Present
  <2>1. e \in Devs /\ e \in toFormat /\ e # dev /\ slot[e] \in Disks
    BY <1>2, <1>3 DEF TypeOK
  <2>2. slot[e] # d
    BY <1>2, <2>1 DEF Injective
  <2> QED
    BY <1>3, <1>4, <2>1, <2>2 DEF OwnPathInv, TargetsRaw, Present
<1>6. MountsKeepUUID'
  <2> SUFFICES ASSUME NEW m \in mounts, m.disk \notin exposed
               PROVE  fs'[m.disk].uuid = m.uuid
    BY <1>3 DEF MountsKeepUUID
  <2>1. m.disk \in Disks /\ m.uuid \in UUIDs /\ fs[m.disk].uuid = m.uuid
    BY <1>2 DEF TypeOK, Mounts, OwnPathInv, MountsKeepUUID
  <2>2. m.disk # d
    BY <1>2, <2>1, UUIDsAssumption DEF Blank
  <2> QED
    BY <1>4, <2>1, <2>2
<1>7. JobMatches' /\ MountedAtOwnPath'
  BY <1>3 DEF OwnPathInv, JobMatches, MountedAtOwnPath
<1> QED
  BY <1>5, <1>6, <1>7 DEF OwnPathInv

LEMMA AttachOwnPathInv ==
    ASSUME OwnPathInv, TruthInv', AttachDevice
    PROVE  OwnPathInv'
<1> DEFINE d == slot[job.dev]
           new == [target |-> job.uuid, dev |-> job.dev, disk |-> d, uuid |-> fs[d].uuid]
<1>1. mounts' = mounts \cup {new} /\ UNCHANGED <<slot, fs, exposed>> /\ pc = "attach"
      /\ pc' = "mounting" /\ Present(job.dev)
  BY DEF AttachDevice, MountReturns, CanAttach
<1>2. fs[new.disk].uuid = new.uuid /\ (new.disk \notin exposed => new.target = new.uuid)
  BY <1>1 DEF OwnPathInv, JobMatches
<1>3. \A m \in mounts : m.target # new.target
  BY <1>1 DEF OwnPathInv, TruthInv, AttachTargetFree, AlreadyMounted
<1>4. new.disk \notin exposed => \A m \in mounts : m.disk # new.disk
  BY <1>2, <1>3 DEF OwnPathInv, MountsKeepUUID, MountedAtOwnPath
<1>5. MountedAtOwnPath'
  <2> SUFFICES ASSUME NEW m \in mounts', NEW n \in mounts'
               PROVE  /\ m.target = n.target => m = n
                      /\ m.disk \notin exposed =>
                             m.target = m.uuid /\ (m.disk = n.disk => m = n)
    BY <1>1 DEF MountedAtOwnPath
  <2>1. CASE m \in mounts /\ n \in mounts
    BY <2>1 DEF OwnPathInv, MountedAtOwnPath
  <2>2. CASE m = new \/ n = new
    BY <1>1, <1>2, <1>3, <1>4, <2>2 DEF OwnPathInv, MountedAtOwnPath
  <2> QED
    BY <1>1, <2>1, <2>2
<1>6. MountsKeepUUID'
  BY <1>1, <1>2 DEF OwnPathInv, MountsKeepUUID
<1>7. TargetsRaw' /\ JobMatches'
  BY <1>1 DEF TargetsRaw, JobMatches
<1> QED
  BY <1>5, <1>6, <1>7 DEF OwnPathInv

LEMMA PlugOwnPathInv ==
    ASSUME OwnPathInv, TruthInv', NEW dev \in Devs,
           Unplug(dev) \/ (\E d \in Disks : Plug(d, dev)) \/ UdevCatchUp(dev)
    PROVE  OwnPathInv'
<1>1. UNCHANGED <<fs, mounts, pc, toFormat, job>> /\ exposed \subseteq exposed'
  BY DEF Unplug, Plug, UdevCatchUp, process, history
<1>2. TypeOK
  BY DEF OwnPathInv, TruthInv
<1>3. ASSUME NEW e \in Devs, NameInUse(e), slot'[e] # NoDisk
      PROVE  slot'[e] = slot[e] \/ slot'[e] \in exposed'
  BY <1>2, <1>3 DEF Unplug, Plug, UdevCatchUp, TypeOK
<1>4. TargetsRaw'
  <2> SUFFICES ASSUME pc = "format", NEW e \in toFormat, slot'[e] # NoDisk
               PROVE  slot'[e] \in exposed' \/ fs[slot'[e]] = Blank
    BY <1>1 DEF TargetsRaw, Present
  <2>1. slot'[e] = slot[e] \/ slot'[e] \in exposed'
    BY <1>2, <1>3 DEF NameInUse, TypeOK
  <2> QED
    BY <1>1, <2>1 DEF OwnPathInv, TargetsRaw, Present
<1>5. JobMatches'
  <2> SUFFICES ASSUME pc \in {"guard", "check", "attach"}, slot'[job.dev] # NoDisk
               PROVE  slot'[job.dev] \in exposed' \/ fs[slot'[job.dev]].uuid = job.uuid
    BY <1>1 DEF JobMatches, Present
  <2>1. slot'[job.dev] = slot[job.dev] \/ slot'[job.dev] \in exposed'
    BY <1>2, <1>3, JobInProgress DEF NameInUse, TypeOK
  <2> QED
    BY <1>1, <2>1 DEF OwnPathInv, JobMatches, Present
<1>6. MountsKeepUUID' /\ MountedAtOwnPath'
  BY <1>1 DEF OwnPathInv, MountsKeepUUID, MountedAtOwnPath
<1> QED
  BY <1>4, <1>5, <1>6 DEF OwnPathInv

LEMMA NextOwnPathInv ==
    ASSUME "settle" \notin FaultKinds
    PROVE  OwnPathInv /\ [Next]_vars => OwnPathInv'
<1> SUFFICES ASSUME OwnPathInv, [Next]_vars PROVE OwnPathInv'
  OBVIOUS
<1>t. TypeOK /\ TruthInv'
  BY NextTruthInv DEF OwnPathInv, TruthInv
<1>a. \A dev \in Devs : Present(dev) => seen[dev] \in {Unprobed, fs[slot[dev]]}
  BY DEF OwnPathInv, TruthInv, Accurate, Present
<1> USE DEF machine, history
<1>1. CASE ScanStart
  <2>1. \A dev \in toFormat' : fs[slot[dev]] = Blank \/ slot[dev] \in exposed'
    BY <1>1, <1>a DEF ScanStart, Formattable, MistakenForRaw, Blank, Unprobed
  <2> QED
    BY <1>1, <1>t, <2>1, QuietStepOwnPathInv DEF ScanStart
<1>0. CASE InitFails
  BY <1>0, <1>t, QuietStepOwnPathInv DEF InitFails
<1>2. ASSUME NEW dev \in Devs, FormatTarget(dev) PROVE OwnPathInv'
  BY <1>2, <1>t, FormatOwnPathInv
<1>3. ASSUME NEW dev \in Devs, FormatFails(dev) PROVE OwnPathInv'
  BY <1>3, <1>t, QuietStepOwnPathInv DEF FormatFails
<1>4. CASE ScanUnmounted \/ ScanUnmountedFails
  BY <1>4, <1>t, QuietStepOwnPathInv DEF ScanUnmounted, ScanUnmountedFails
<1>5. ASSUME NEW entry \in toMount, ResolveFails(entry) PROVE OwnPathInv'
  BY <1>5, <1>t, QuietStepOwnPathInv DEF ResolveFails
<1>6. ASSUME NEW entry \in toMount, NEW dev \in Devs, ResolveUUID(entry, dev)
      PROVE  OwnPathInv'
  <2>1. entry.uuid \in UUIDs
    BY <1>t DEF TypeOK, ToMountEntries
  <2>2. job'.dev = dev /\ seen[dev].uuid = job'.uuid /\ job'.uuid \in UUIDs
    BY <1>6, <2>1 DEF ResolveUUID
  <2>3. Present(dev) => fs[slot[dev]].uuid = job'.uuid
    BY <1>a, <2>2, UUIDsAssumption DEF Unprobed
  <2> QED
    BY <1>6, <1>t, <2>2, <2>3, QuietStepOwnPathInv DEF ResolveUUID
<1>7. CASE PassRootGuard \/ RefuseRootDisk \/ CheckDevice \/ RefuseDevice \/ AttachFails
  BY <1>7, <1>t, QuietStepOwnPathInv
     DEF PassRootGuard, RefuseRootDisk, CheckDevice, RefuseDevice, AttachFails, MountReturns
<1>8. CASE AttachDevice
  BY <1>8, <1>t, AttachOwnPathInv
<1>9. CASE ScanMounted \/ ScanMountedFails \/ RememberUUIDs \/ PatchNode \/ PatchFails
           \/ Restart
  BY <1>9, <1>t, QuietStepOwnPathInv
     DEF ScanMounted, ScanMountedFails, RememberUUIDs, PatchNode, PatchFails, Restart
<1>10. ASSUME NEW m \in entries, LookupUUID(m) PROVE OwnPathInv'
  BY <1>10, <1>t, QuietStepOwnPathInv DEF LookupUUID
<1>11. CASE Crash \/ NodeRecreated
  BY <1>11, <1>t, QuietStepOwnPathInv DEF Crash, ProcessStops, NodeRecreated, process
<1>12. ASSUME NEW dev \in Devs,
              Unplug(dev) \/ UdevCatchUp(dev) \/ \E d \in Disks : Plug(d, dev)
       PROVE  OwnPathInv'
  BY <1>12, <1>t, PlugOwnPathInv
<1>13. CASE Reboot
  BY <1>13, <1>t DEF Reboot, ProcessStops, OwnPathInv, TargetsRaw, JobMatches,
                     MountsKeepUUID, MountedAtOwnPath
<1>14. CASE UNCHANGED vars
  BY <1>14, <1>t, QuietStepOwnPathInv DEF vars, process
<1> QED
  BY <1>0, <1>1, <1>2, <1>3, <1>4, <1>5, <1>6, <1>7, <1>8, <1>9, <1>10, <1>11,
     <1>12, <1>13, <1>14 DEF Next, ScanStep, Environment

LEMMA InitOwnPathInv == Init => OwnPathInv
  BY InitTruthInv
     DEF Init, OwnPathInv, TargetsRaw, JobMatches, MountsKeepUUID, MountedAtOwnPath

\* As long as udevadm settle does not fail, a directory has one mount and a
\* disk is mounted once, at the directory named by its UUID, through re-plugs,
\* crashes and reboots, unless it was mistaken for raw or took over a kernel
\* name in use.
THEOREM AlwaysMountedAtOwnPath ==
    ASSUME "settle" \notin FaultKinds
    PROVE  Spec => []MountedAtOwnPath
<1>1. OwnPathInv => MountedAtOwnPath
  BY DEF OwnPathInv
<1>2. OwnPathInv /\ [Next]_vars => OwnPathInv'
  BY NextOwnPathInv
<1> QED
  BY <1>1, <1>2, InitOwnPathInv, PTL DEF Spec

-----------------------------------------------------------------------------
(***************************************************************************)
(* Only what the agent manages is mounted, whatever fails: the label and   *)
(* the root disk are looked at before the mount, by name.                  *)
(***************************************************************************)

\* A disk that shows our label carries it: udev may lag behind mkfs and behind
\* a plug, but only mkfs changes a label, and to ours.
LabelsTrue ==
    \A dev \in Devs :
        Present(dev) /\ seen[dev].kind = "ours" => fs[slot[dev]].kind = "ours"

\* The disk that hosts "/" stays in the machine.
RootPlugged == \A d \in RootParts : Plugged(d)

\* What is about to be mounted carries our label, or was exposed ...
JobLabelled ==
    pc = "attach" /\ Present(job.dev) =>
        slot[job.dev] \in exposed \/ fs[slot[job.dev]].kind = "ours"

\* ... and, unless the guard could not tell, is not on the root disk.
JobNotRoot ==
    RootVisible /\ "read" \notin FaultKinds =>
        (pc \in {"check", "attach"} /\ Present(job.dev) => slot[job.dev] \notin RootParts)

ManagedInv ==
    /\ TypeOK
    /\ Injective(slot)
    /\ LabelsTrue
    /\ RootPlugged
    /\ JobLabelled
    /\ JobNotRoot
    /\ OnlyManagedMounts

\* The steps outside the check and the mount, which leave the machine alone.
LEMMA QuietStepManagedInv ==
    ASSUME ManagedInv, TypeOK', UNCHANGED <<slot, fs, seen, mounts>>,
           exposed \subseteq exposed',
           pc' \in {"check", "attach"} => UNCHANGED <<pc, job>>
    PROVE  ManagedInv'
<1>1. Injective(slot)' /\ LabelsTrue' /\ RootPlugged'
  BY DEF ManagedInv, Injective, LabelsTrue, RootPlugged, Plugged, Present
<1>2. JobLabelled' /\ JobNotRoot' /\ OnlyManagedMounts'
  BY DEF ManagedInv, JobLabelled, JobNotRoot, OnlyManagedMounts, Present
<1> QED
  BY <1>1, <1>2 DEF ManagedInv

LEMMA FormatManagedInv ==
    ASSUME ManagedInv, TypeOK', NEW dev \in Devs, FormatTarget(dev)
    PROVE  ManagedInv'
<1> DEFINE d == slot[dev]
<1>1. UNCHANGED <<slot, mounts, exposed>> /\ pc' = "format"
  BY DEF FormatTarget
<1>2. PICK u \in UUIDs :
         /\ fs' = [fs EXCEPT ![d] = [uuid |-> u, kind |-> "ours"]]
         /\ \A e \in Devs : e # dev => seen'[e] = seen[e]
  BY DEF FormatTarget, ManagedInv, TypeOK
<1>3. d \in Disks /\ TypeOK /\ Injective(slot)
  BY DEF FormatTarget, Present, ManagedInv, TypeOK
<1>4. fs'[d].kind = "ours" /\ \A e \in Disks : e # d => fs'[e] = fs[e]
  BY <1>2, <1>3 DEF TypeOK
<1>5. LabelsTrue'
  <2> SUFFICES ASSUME NEW e \in Devs, slot[e] # NoDisk, seen'[e].kind = "ours"
               PROVE  fs'[slot[e]].kind = "ours"
    BY <1>1 DEF LabelsTrue, Present
  <2>1. slot[e] \in Disks
    BY <1>3 DEF TypeOK
  <2> QED
    BY <1>2, <1>4, <2>1 DEF ManagedInv, LabelsTrue, Present
<1>6. OnlyManagedMounts'
  <2>1. \A m \in mounts : m.disk \in Disks
    BY <1>3 DEF TypeOK, Mounts
  <2> QED
    BY <1>1, <1>4, <2>1 DEF ManagedInv, OnlyManagedMounts
<1>7. Injective(slot)' /\ RootPlugged' /\ JobLabelled' /\ JobNotRoot'
  BY <1>1 DEF ManagedInv, Injective, RootPlugged, Plugged, JobLabelled, JobNotRoot
<1> QED
  BY <1>5, <1>6, <1>7 DEF ManagedInv

LEMMA GuardManagedInv ==
    ASSUME ManagedInv, TypeOK', PassRootGuard
    PROVE  ManagedInv'
<1>1. UNCHANGED <<slot, fs, seen, mounts, job, exposed>> /\ pc' = "check"
      /\ (RootGuardPasses(job.dev) \/ "read" \in FaultKinds)
  BY DEF PassRootGuard, machine, history, Fault
<1>2. Injective(slot)' /\ LabelsTrue' /\ RootPlugged'
  BY <1>1 DEF ManagedInv, Injective, LabelsTrue, RootPlugged, Plugged, Present
<1>3. JobLabelled' /\ JobNotRoot' /\ OnlyManagedMounts'
  BY <1>1 DEF ManagedInv, JobLabelled, JobNotRoot, OnlyManagedMounts, RootGuardPasses, Present
<1> QED
  BY <1>2, <1>3 DEF ManagedInv

LEMMA CheckManagedInv ==
    ASSUME ManagedInv, TypeOK', CheckDevice
    PROVE  ManagedInv'
<1>1. UNCHANGED <<slot, fs, seen, mounts, exposed>> /\ pc = "check"
      /\ LabelMatches(job.dev) /\ (pc' = "mounting" \/ (pc' = "attach" /\ job' = job))
  BY DEF CheckDevice, MountReturns, machine, history
<1>2. job.dev \in Devs
  BY <1>1, JobInProgress DEF ManagedInv, TypeOK
<1>3. fs[slot[job.dev]].kind = "ours"
  BY <1>1, <1>2 DEF LabelMatches, ManagedInv, LabelsTrue
<1>4. Injective(slot)' /\ LabelsTrue' /\ RootPlugged'
  BY <1>1 DEF ManagedInv, Injective, LabelsTrue, RootPlugged, Plugged, Present
<1>5. JobLabelled' /\ JobNotRoot' /\ OnlyManagedMounts'
  BY <1>1, <1>3 DEF ManagedInv, JobLabelled, JobNotRoot, OnlyManagedMounts, Present
<1> QED
  BY <1>4, <1>5 DEF ManagedInv

LEMMA AttachManagedInv ==
    ASSUME ManagedInv, TypeOK', AttachDevice
    PROVE  ManagedInv'
<1> DEFINE d == slot[job.dev]
           new == [target |-> job.uuid, dev |-> job.dev, disk |-> d, uuid |-> fs[d].uuid]
<1>1. mounts' = mounts \cup {new} /\ UNCHANGED <<slot, fs, seen, exposed>>
      /\ pc = "attach" /\ pc' = "mounting" /\ Present(job.dev)
  BY DEF AttachDevice, MountReturns, CanAttach
<1>2. /\ new.disk \notin exposed => fs[new.disk].kind = "ours"
      /\ RootVisible /\ "read" \notin FaultKinds => new.disk \notin RootParts
  BY <1>1 DEF ManagedInv, JobLabelled, JobNotRoot
<1>3. OnlyManagedMounts'
  <2> HIDE DEF new
  <2> QED
    BY <1>1, <1>2 DEF ManagedInv, OnlyManagedMounts
<1>4. Injective(slot)' /\ LabelsTrue' /\ RootPlugged'
  BY <1>1 DEF ManagedInv, Injective, LabelsTrue, RootPlugged, Plugged, Present
<1> QED
  BY <1>1, <1>3, <1>4 DEF ManagedInv, JobLabelled, JobNotRoot

\* A disk comes or goes, or udev catches up with it: a name Mount works on is
\* taken over only by a disk that is exposed by it, and never by a root disk.
LEMMA PlugManagedInv ==
    ASSUME ManagedInv, TypeOK', NEW dev \in Devs,
           Unplug(dev) \/ (\E d \in Disks : Plug(d, dev)) \/ UdevCatchUp(dev)
    PROVE  ManagedInv'
<1>1. UNCHANGED <<fs, mounts, pc, job>> /\ exposed \subseteq exposed'
  BY DEF Unplug, Plug, UdevCatchUp, process, history
<1>2. TypeOK /\ Injective(slot) /\ RootPlugged
  BY DEF ManagedInv
<1>3. \A e \in Devs : e # dev => slot'[e] = slot[e] /\ seen'[e] = seen[e]
  BY <1>2 DEF Unplug, Plug, UdevCatchUp, TypeOK
<1>4. Injective(slot)'
  BY <1>2 DEF Unplug, Plug, UdevCatchUp, Injective, Plugged, TypeOK
<1>5. slot'[dev] # NoDisk => seen'[dev] \in {Unprobed, fs[slot'[dev]]}
  BY <1>2 DEF Unplug, Plug, UdevCatchUp, TypeOK
<1>6. LabelsTrue'
  BY <1>1, <1>3, <1>5 DEF ManagedInv, LabelsTrue, Present, Unprobed
<1>7. \/ slot'[dev] = slot[dev]
      \/ slot[dev] \notin RootParts /\ slot'[dev] = NoDisk
      \/ slot[dev] = NoDisk /\ slot'[dev] \notin RootParts
         /\ (NameInUse(dev) => slot'[dev] \in exposed')
  BY <1>2 DEF Unplug, Plug, UdevCatchUp, RootPlugged, Present, TypeOK
<1>8. RootPlugged'
  <2> SUFFICES ASSUME NEW d \in RootParts PROVE \E e \in Devs : slot'[e] = d
    BY DEF RootPlugged, Plugged
  <2>1. PICK e \in Devs : slot[e] = d
    BY <1>2 DEF RootPlugged, Plugged
  <2>2. d # NoDisk
    BY RootAssumption, DisksAssumption
  <2> QED
    BY <1>3, <1>7, <2>1, <2>2
<1>9. pc \in {"check", "attach"} => job.dev \in Devs /\ NameInUse(job.dev)
  BY <1>2, JobInProgress DEF NameInUse, TypeOK
<1>10. JobLabelled' /\ JobNotRoot'
  <2>1. CASE job.dev = dev
    BY <1>1, <1>7, <1>9, <2>1 DEF ManagedInv, JobLabelled, JobNotRoot, Present
  <2>2. CASE job.dev # dev
    BY <1>1, <1>3, <1>9, <2>2 DEF ManagedInv, JobLabelled, JobNotRoot, Present
  <2> QED
    BY <2>1, <2>2
<1>11. OnlyManagedMounts'
  BY <1>1 DEF ManagedInv, OnlyManagedMounts
<1> QED
  BY <1>4, <1>6, <1>8, <1>10, <1>11 DEF ManagedInv

LEMMA RebootManagedInv ==
    ASSUME ManagedInv, TypeOK', Reboot
    PROVE  ManagedInv'
<1>1. Injective(slot)' /\ LabelsTrue'
  BY DEF Reboot, Placements, LabelsTrue, Observed, Present
<1>2. RootPlugged'
  BY RootAssumption DEF Reboot, ManagedInv, RootPlugged, Plugged
<1>3. JobLabelled' /\ JobNotRoot' /\ OnlyManagedMounts'
  BY DEF Reboot, ProcessStops, JobLabelled, JobNotRoot, OnlyManagedMounts
<1> QED
  BY <1>1, <1>2, <1>3 DEF ManagedInv

LEMMA NextManagedInv == ManagedInv /\ [Next]_vars => ManagedInv'
<1> SUFFICES ASSUME ManagedInv, [Next]_vars PROVE ManagedInv'
  OBVIOUS
<1>t. TypeOK /\ TypeOK'
  BY NextTypeOK DEF ManagedInv
<1> USE DEF machine, history
<1>1. CASE ScanStart \/ InitFails \/ ScanUnmounted \/ ScanUnmountedFails
  BY <1>1, <1>t, QuietStepManagedInv DEF ScanStart, InitFails, ScanUnmounted, ScanUnmountedFails
<1>2. ASSUME NEW dev \in Devs, FormatTarget(dev) PROVE ManagedInv'
  BY <1>2, <1>t, FormatManagedInv
<1>3. ASSUME NEW dev \in Devs, FormatFails(dev) PROVE ManagedInv'
  BY <1>3, <1>t, QuietStepManagedInv DEF FormatFails
<1>4. ASSUME NEW entry \in toMount, ResolveFails(entry) PROVE ManagedInv'
  BY <1>4, <1>t, QuietStepManagedInv DEF ResolveFails
<1>5. ASSUME NEW entry \in toMount, NEW dev \in Devs, ResolveUUID(entry, dev)
      PROVE  ManagedInv'
  BY <1>5, <1>t, QuietStepManagedInv DEF ResolveUUID
<1>6. CASE PassRootGuard
  BY <1>6, <1>t, GuardManagedInv
<1>7. CASE CheckDevice
  BY <1>7, <1>t, CheckManagedInv
<1>8. CASE AttachDevice
  BY <1>8, <1>t, AttachManagedInv
<1>9. CASE RefuseRootDisk \/ RefuseDevice \/ AttachFails
  BY <1>9, <1>t, QuietStepManagedInv DEF RefuseRootDisk, RefuseDevice, AttachFails, MountReturns
<1>10. CASE ScanMounted \/ ScanMountedFails \/ RememberUUIDs \/ PatchNode \/ PatchFails
            \/ Restart
  BY <1>10, <1>t, QuietStepManagedInv
     DEF ScanMounted, ScanMountedFails, RememberUUIDs, PatchNode, PatchFails, Restart
<1>11. ASSUME NEW m \in entries, LookupUUID(m) PROVE ManagedInv'
  BY <1>11, <1>t, QuietStepManagedInv DEF LookupUUID
<1>12. CASE Crash \/ NodeRecreated
  BY <1>12, <1>t, QuietStepManagedInv DEF Crash, ProcessStops, NodeRecreated, process
<1>13. ASSUME NEW dev \in Devs,
              Unplug(dev) \/ UdevCatchUp(dev) \/ \E d \in Disks : Plug(d, dev)
       PROVE  ManagedInv'
  BY <1>13, <1>t, PlugManagedInv
<1>14. CASE Reboot
  BY <1>14, <1>t, RebootManagedInv
<1>15. CASE UNCHANGED vars
  BY <1>15, <1>t, QuietStepManagedInv DEF vars, process
<1> QED
  BY <1>1, <1>2, <1>3, <1>4, <1>5, <1>6, <1>7, <1>8, <1>9, <1>10, <1>11, <1>12,
     <1>13, <1>14, <1>15 DEF Next, ScanStep, Environment

LEMMA InitManagedInv == Init => ManagedInv
<1> SUFFICES ASSUME Init PROVE ManagedInv
  OBVIOUS
<1>1. LabelsTrue
  BY DEF Init, LabelsTrue, Observed, Present
<1> QED
  BY <1>1, InitTypeOK
     DEF Init, Placements, ManagedInv, RootPlugged, JobLabelled, JobNotRoot, OnlyManagedMounts

\* Only filesystems with the agent's label are mounted, whatever fails, but for
\* a disk that took over a kernel name in use; and none on the root disk if
\* that can be told.
THEOREM AlwaysOnlyManagedMounts == Spec => []OnlyManagedMounts
<1>1. ManagedInv => OnlyManagedMounts
  BY DEF ManagedInv
<1> QED
  BY <1>1, InitManagedInv, NextManagedInv, PTL DEF Spec
=============================================================================
