-------------------------- MODULE NodeScannerProofs --------------------------
(***************************************************************************)
(* Proofs about the node scanner, for any number of disks, kernel names,   *)
(* UUIDs and faults.                                                       *)
(***************************************************************************)
EXTENDS NodeScanner, TLAPS

-----------------------------------------------------------------------------
(***************************************************************************)
(* Facts about the data.                                                   *)
(***************************************************************************)

\* What is mountable has a UUID.
LEMMA MountableHasUUID ==
    ASSUME NEW c \in Contents, c.kind \in {"ours", "ext4"}
    PROVE  c \in FileSystems /\ c.uuid \in UUIDs
  BY DEF Contents, FileSystems, Blank, Parts

\* The UUID of a content is a UUID or "none".
LEMMA ContentUUID ==
    ASSUME NEW c \in Contents
    PROVE  c.uuid \in UUIDs \cup {NoUUID}
  BY DEF Contents, FileSystems, Blank, Parts

LEMMA BlankIsContent == Blank \in Contents
  BY DEF Contents

\* A filesystem is not blank.
LEMMA OursIsContent ==
    ASSUME NEW u \in UUIDs
    PROVE  /\ [uuid |-> u, kind |-> "ours"] \in Contents
           /\ [uuid |-> u, kind |-> "ours"] # Blank
  BY DEF Contents, FileSystems, Blank

\* A job in progress has a UUID and a kernel name.
LEMMA JobInProgress ==
    ASSUME job \in Jobs, job # NoJob
    PROVE  job.uuid \in UUIDs /\ job.dev \in Devs
  BY DEF Jobs

LEMMA KeysAreUUIDs == \A map : Keys(map) \subseteq UUIDs
  BY DEF Keys

LEMMA EmptyMapHasNoKeys == EmptyMap \in DiskMaps /\ Keys(EmptyMap) = {}
  BY DEF EmptyMap, DiskMaps, Keys

LEMMA ObservedIsContents ==
    ASSUME NEW s \in [Devs -> Disks \cup {NoDisk}], NEW f \in [Disks -> Contents]
    PROVE  Observed(s, f) \in [Devs -> Contents]
  BY BlankIsContent DEF Observed

-----------------------------------------------------------------------------
(***************************************************************************)
(* Type correctness.                                                       *)
(***************************************************************************)

LEMMA InitTypeOK == Init => TypeOK
<1> SUFFICES ASSUME Init PROVE TypeOK
  OBVIOUS
<1>1. slot \in [Devs -> Disks \cup {NoDisk}] /\ fs \in [Disks -> Contents]
  BY InitialFsAssumption DEF Init, Placements
<1>2. seen \in [Devs -> Contents \cup {Unprobed}]
  BY <1>1, ObservedIsContents DEF Init
<1>3. minted \subseteq UUIDs /\ precious \subseteq Contents
  BY <1>1, ContentUUID DEF Init
<1>4. diskMap \in DiskMaps /\ annotation \in DiskMaps
  BY EmptyMapHasNoKeys DEF Init
<1>5. job \in Jobs /\ faults \in 0..MaxFaults
  BY MaxFaultsAssumption DEF Init, Jobs
<1> QED
  BY <1>1, <1>2, <1>3, <1>4, <1>5 DEF Init, TypeOK

LEMMA FaultTypeOK ==
    ASSUME TypeOK, (\E k \in FaultKinds : Fault(k)) \/ NoFault
    PROVE  faults' \in 0..MaxFaults
  BY MaxFaultsAssumption DEF TypeOK, Fault, NoFault

\* Every step keeps the types.
LEMMA NextTypeOK == TypeOK /\ [Next]_vars => TypeOK'
<1> SUFFICES ASSUME TypeOK, [Next]_vars PROVE TypeOK'
  OBVIOUS
<1> USE DEF machine, process, node, history
<1>1. CASE ScanStart
  <2>1. MistakenForRaw \subseteq Disks
    BY DEF MistakenForRaw, Formattable, Present, TypeOK
  <2> QED
    BY <1>1, <2>1 DEF ScanStart, TypeOK, NoFault
<1>2. CASE InitFails
  BY <1>2, FaultTypeOK DEF InitFails, TypeOK, Fault
<1>3. ASSUME NEW dev \in Devs, FormatTarget(dev) PROVE TypeOK'
  <2>1. PICK u \in UUIDs \ minted :
           /\ minted' = minted \cup {u}
           /\ fs' = [fs EXCEPT ![slot[dev]] = [uuid |-> u, kind |-> "ours"]]
           /\ \/ /\ seen' = [seen EXCEPT ![dev] = [uuid |-> u, kind |-> "ours"]]
                 /\ NoFault
              \/ /\ Fault("settle")
                 /\ UNCHANGED seen
    BY <1>3 DEF FormatTarget
  <2>2. faults' \in 0..MaxFaults
    BY <2>1, FaultTypeOK DEF Fault
  <2>3. fs' \in [Disks -> Contents] /\ seen' \in [Devs -> Contents \cup {Unprobed}]
    BY <2>1, OursIsContent DEF TypeOK
  <2> QED
    BY <1>3, <2>1, <2>2, <2>3 DEF FormatTarget, TypeOK
<1>4. ASSUME NEW dev \in Devs, FormatFails(dev) PROVE TypeOK'
  <2>1. faults' \in 0..MaxFaults
    BY <1>4, FaultTypeOK DEF FormatFails, Fault
  <2> QED
    BY <1>4, <2>1 DEF FormatFails, TypeOK
<1>5. CASE ScanUnmounted
  <2>1. \A dev \in Devs : Listable(dev) => seen[dev].uuid \in UUIDs
    BY ContentUUID DEF Listable, TypeOK, Unprobed
  <2>2. toMount' \subseteq ToMountEntries
    BY <1>5, <2>1 DEF ScanUnmounted, ToMountEntries
  <2> QED
    BY <1>5, <2>2 DEF ScanUnmounted, TypeOK, NoFault
<1>6. CASE ScanUnmountedFails
  BY <1>6, FaultTypeOK DEF ScanUnmountedFails, TypeOK, Fault
<1>7. ASSUME NEW entry \in toMount, ResolveFails(entry) PROVE TypeOK'
  BY <1>7 DEF ResolveFails, TypeOK, NoFault
<1>8. ASSUME NEW entry \in toMount, NEW dev \in Devs, ResolveUUID(entry, dev) PROVE TypeOK'
  <2>1. entry.uuid \in UUIDs
    BY DEF TypeOK, ToMountEntries
  <2>2. job' \in Jobs /\ job' # NoJob
    BY <1>8, <2>1, UUIDsAssumption DEF ResolveUUID, Jobs, NoJob
  <2> QED
    BY <1>8, <2>2 DEF ResolveUUID, TypeOK, NoFault
<1>9. CASE PassRootGuard
  <2>1. faults' \in 0..MaxFaults
    BY <1>9, FaultTypeOK DEF PassRootGuard, Fault
  <2> QED
    BY <1>9, <2>1 DEF PassRootGuard, TypeOK
<1>10. CASE RefuseRootDisk
  BY <1>10 DEF RefuseRootDisk, MountReturns, TypeOK, NoFault, Jobs
<1>11. CASE CheckDevice
  <2>1. job.uuid \in UUIDs
    BY <1>11, JobInProgress DEF CheckDevice, TypeOK
  <2> QED
    BY <1>11, <2>1 DEF CheckDevice, MountReturns, TypeOK, NoFault, Jobs
<1>12. CASE RefuseDevice
  <2>1. faults' \in 0..MaxFaults
    BY <1>12, FaultTypeOK DEF RefuseDevice, Fault
  <2> QED
    BY <1>12, <2>1 DEF RefuseDevice, MountReturns, TypeOK, Jobs
<1>13. CASE AttachDevice
  <2>1. job.uuid \in UUIDs /\ job.dev \in Devs
    BY <1>13, JobInProgress DEF AttachDevice, TypeOK
  <2>2. slot[job.dev] \in Disks
    BY <1>13, <2>1 DEF AttachDevice, CanAttach, Present, TypeOK
  <2>3. fs[slot[job.dev]] \in Contents /\ fs[slot[job.dev]].uuid \in UUIDs
    BY <1>13, <2>2, MountableHasUUID DEF AttachDevice, CanAttach, TypeOK
  <2>4. mounts' \subseteq Mounts /\ precious' \subseteq Contents
    BY <1>13, <2>1, <2>2, <2>3 DEF AttachDevice, TypeOK, Mounts
  <2> QED
    BY <1>13, <2>4 DEF AttachDevice, MountReturns, TypeOK, NoFault, Jobs
<1>14. CASE AttachFails
  <2>1. faults' \in 0..MaxFaults
    BY <1>14, FaultTypeOK DEF AttachFails, Fault
  <2> QED
    BY <1>14, <2>1 DEF AttachFails, MountReturns, TypeOK, Jobs
<1>15. CASE ScanMounted
  BY <1>15, EmptyMapHasNoKeys DEF ScanMounted, TypeOK, NoFault
<1>16. CASE ScanMountedFails
  BY <1>16, FaultTypeOK DEF ScanMountedFails, TypeOK, Fault
<1>17. ASSUME NEW m \in entries, LookupUUID(m) PROVE TypeOK'
  <2>1. m.target \in UUIDs /\ m.dev \in Devs
    BY DEF TypeOK, Mounts
  <2>2. diskMap' \in DiskMaps
    BY <1>17, <2>1 DEF LookupUUID, TypeOK, DiskMaps
  <2>3. faults' \in 0..MaxFaults
    BY <1>17, FaultTypeOK DEF LookupUUID, Fault
  <2> QED
    BY <1>17, <2>2, <2>3 DEF LookupUUID, TypeOK
<1>18. CASE RememberUUIDs
  BY <1>18, KeysAreUUIDs DEF RememberUUIDs, TypeOK, NoFault
<1>19. CASE PatchNode
  BY <1>19, KeysAreUUIDs, EmptyMapHasNoKeys
     DEF PatchNode, PatchedLabels, PatchedAnnotation, TypeOK, NoFault
<1>20. CASE PatchFails
  BY <1>20, FaultTypeOK, EmptyMapHasNoKeys DEF PatchFails, TypeOK, Fault
<1>21. CASE Restart
  BY <1>21 DEF Restart, TypeOK, NoFault
<1>22. CASE Crash
  BY <1>22, FaultTypeOK, EmptyMapHasNoKeys DEF Crash, ProcessStops, TypeOK, Fault, Jobs
<1>23. ASSUME NEW dev \in Devs, Unplug(dev) PROVE TypeOK'
  BY <1>23, FaultTypeOK, BlankIsContent DEF Unplug, TypeOK, Fault
<1>24. ASSUME NEW dev \in Devs, UdevCatchUp(dev) PROVE TypeOK'
  BY <1>24 DEF UdevCatchUp, Present, TypeOK, NoFault
<1>25. ASSUME NEW d \in Disks, NEW dev \in Devs, Plug(d, dev) PROVE TypeOK'
  <2>1. faults' \in 0..MaxFaults
    BY <1>25, FaultTypeOK DEF Plug, Fault
  <2>2. seen' \in [Devs -> Contents \cup {Unprobed}] /\ exposed' \subseteq Disks
    BY <1>25 DEF Plug, TypeOK
  <2> QED
    BY <1>25, <2>1, <2>2 DEF Plug, TypeOK
<1>26. CASE Reboot
  <2>1. /\ slot' \in [Devs -> Disks \cup {NoDisk}]
        /\ seen' \in [Devs -> Contents \cup {Unprobed}]
    BY <1>26, ObservedIsContents DEF Reboot, Placements, TypeOK
  <2>2. faults' \in 0..MaxFaults
    BY <1>26, FaultTypeOK DEF Reboot, Fault
  <2> QED
    BY <1>26, <2>1, <2>2, EmptyMapHasNoKeys DEF Reboot, ProcessStops, TypeOK, Jobs
<1>27. CASE NodeRecreated
  BY <1>27, FaultTypeOK, EmptyMapHasNoKeys DEF NodeRecreated, TypeOK, Fault
<1>28. CASE UNCHANGED vars
  BY <1>28 DEF vars, TypeOK
<1> QED
  BY <1>1, <1>2, <1>3, <1>4, <1>5, <1>6, <1>7, <1>8, <1>9, <1>10, <1>11, <1>12,
     <1>13, <1>14, <1>15, <1>16, <1>17, <1>18, <1>19, <1>20, <1>21, <1>22, <1>23,
     <1>24, <1>25, <1>26, <1>27, <1>28 DEF Next, ScanStep, Environment

\* Every reachable state is well typed.
THEOREM TypeCorrect == Spec => []TypeOK
  BY InitTypeOK, NextTypeOK, PTL DEF Spec

-----------------------------------------------------------------------------
\* Only mkfs changes what a disk carries.
LEMMA OnlyFormatWrites ==
    ASSUME [Next]_vars
    PROVE  UNCHANGED fs \/ \E dev \in Devs : FormatTarget(dev)
  BY DEF Next, ScanStep, Environment, vars, machine,
         ScanStart, InitFails, FormatFails, ScanUnmounted, ScanUnmountedFails,
         ResolveFails, ResolveUUID, PassRootGuard, RefuseRootDisk, CheckDevice,
         RefuseDevice, AttachDevice, AttachFails, ScanMounted, ScanMountedFails,
         LookupUUID, RememberUUIDs, PatchNode, PatchFails, Restart, Crash,
         Unplug, UdevCatchUp, Plug, Reboot, NodeRecreated

-----------------------------------------------------------------------------
(***************************************************************************)
(* Inductive invariants.                                                   *)
(***************************************************************************)

\* lsblk and the by-uuid symlinks say of a name what the disk behind it
\* carries, or nothing yet.
Accurate ==
    \A dev \in Devs :
        IF slot[dev] = NoDisk THEN seen[dev] = Blank
                              ELSE seen[dev] \in {Unprobed, fs[slot[dev]]}

\* A name with a mount on it has the mounted disk behind it, or none.
NamesHeld == \A m \in mounts : slot[m.dev] \in {m.disk, NoDisk}

\* A live mount still has the filesystem that was mounted.
LiveMountsIntact == \A m \in mounts : slot[m.dev] = m.disk => fs[m.disk].uuid = m.uuid

\* No name Init has still to format has a mount on it.
TargetsNotMounted ==
    pc = "format" => \A dev \in toFormat : ~HasMountpoint(dev)

\* What ScanMounted works on is still mounted.
EntriesMounted == entries \subseteq mounts

\* A map only has entries of mounts.
TruthfulMap(map) ==
    \A u \in Keys(map) : \E m \in mounts : m.target = map[u] /\ m.uuid = u

\* The directory Mount is about to use is free.
AttachTargetFree == pc = "attach" => ~AlreadyMounted(job.uuid)

\* By the time of the patch there is no stale UUID left to compare with.
NothingStale == pc = "patch" => prevUUIDs = Keys(diskMap)

\* What holds as long as udevadm settle does not fail.
TruthInv ==
    /\ TypeOK
    /\ Injective(slot)
    /\ Accurate
    /\ NamesHeld
    /\ LiveMountsIntact
    /\ TargetsNotMounted
    /\ EntriesMounted
    /\ TruthfulMap(diskMap)
    /\ AttachTargetFree
    /\ NothingStale
    /\ MapTruthful
    /\ LabelsCoverMap

-----------------------------------------------------------------------------
(***************************************************************************)
(* The published map is truthful as long as udevadm settle does not fail.  *)
(***************************************************************************)

LEMMA InitTruthInv == Init => TruthInv
<1> SUFFICES ASSUME Init PROVE TruthInv
  OBVIOUS
<1>1. TypeOK
  BY InitTypeOK
<1>2. TruthfulMap(diskMap) /\ LabelsCoverMap
  BY EmptyMapHasNoKeys DEF Init, TruthfulMap, LabelsCoverMap
<1>3. Accurate
  BY DEF Init, Accurate, Observed
<1> QED
  BY <1>1, <1>2, <1>3
     DEF Init, TruthInv, Placements, NamesHeld, LiveMountsIntact,
         TargetsNotMounted, EntriesMounted, AttachTargetFree, NothingStale,
         MapTruthful

\* The steps of the process that leave the machine, the map and the Node alone.
LEMMA QuietStepTruthInv ==
    ASSUME TruthInv, TypeOK', UNCHANGED <<machine, diskMap, node, published>>,
           entries' \subseteq entries,
           pc' = "format" /\ pc # "format" => \A dev \in toFormat' : ~HasMountpoint(dev),
           pc' = "format" /\ pc = "format" => toFormat' \subseteq toFormat,
           pc' = "attach" => ~AlreadyMounted(job'.uuid),
           pc' = "patch" => prevUUIDs' = Keys(diskMap)
    PROVE  TruthInv'
<1> USE DEF machine, node
<1>1. Injective(slot)' /\ Accurate' /\ NamesHeld' /\ LiveMountsIntact'
  BY DEF TruthInv, Injective, Accurate, NamesHeld, LiveMountsIntact
<1>2. TargetsNotMounted'
  BY DEF TruthInv, TargetsNotMounted, HasMountpoint
<1>3. EntriesMounted' /\ TruthfulMap(diskMap)' /\ MapTruthful' /\ LabelsCoverMap'
  BY DEF TruthInv, EntriesMounted, TruthfulMap, MapTruthful, LabelsCoverMap, Keys
<1>4. AttachTargetFree' /\ NothingStale'
  BY DEF AttachTargetFree, AlreadyMounted, NothingStale, Keys
<1> QED
  BY <1>1, <1>2, <1>3, <1>4 DEF TruthInv

\* mkfs: the new filesystem is on a disk that is mounted nowhere.
LEMMA FormatTruthInv ==
    ASSUME "settle" \notin FaultKinds, TruthInv, TypeOK',
           NEW dev \in Devs, FormatTarget(dev)
    PROVE  TruthInv'
<1> DEFINE d == slot[dev]
<1>1. PICK u \in UUIDs \ minted :
         /\ fs' = [fs EXCEPT ![d] = [uuid |-> u, kind |-> "ours"]]
         /\ seen' = [seen EXCEPT ![dev] = [uuid |-> u, kind |-> "ours"]]
  BY DEF FormatTarget, Fault
<1>2. d \in Disks /\ d # NoDisk /\ TypeOK /\ Injective(slot)
  BY DEF FormatTarget, Present, TruthInv, TypeOK
<1>3. UNCHANGED <<slot, mounts, entries, diskMap, job, prevUUIDs, labels, annotation, published>>
      /\ pc = "format" /\ pc' = "format" /\ toFormat' \subseteq toFormat /\ dev \in toFormat
  BY DEF FormatTarget, IsFirst, node
<1>4. Accurate'
  <2>1. seen'[dev] = fs'[d]
    BY <1>1, <1>2 DEF TypeOK
  <2>2. ASSUME NEW e \in Devs, e # dev
        PROVE  seen'[e] = seen[e] /\ (slot[e] # NoDisk => fs'[slot[e]] = fs[slot[e]])
    <3>1. slot[e] # NoDisk => slot[e] # d
      BY <1>2, <2>2 DEF Injective
    <3> QED
      BY <1>1, <1>2, <2>2, <3>1 DEF TypeOK
  <2> QED
    BY <1>2, <1>3, <2>1, <2>2 DEF TruthInv, Accurate
<1>5. \A m \in mounts : slot[m.dev] = m.disk => m.disk # d
  <2> SUFFICES ASSUME NEW m \in mounts, slot[m.dev] = m.disk, m.disk = d PROVE FALSE
    OBVIOUS
  <2>1. m.dev \in Devs
    BY <1>2 DEF TypeOK, Mounts
  <2>2. m.dev = dev
    BY <1>2, <2>1 DEF Injective
  <2> QED
    BY <1>3, <2>2 DEF TruthInv, TargetsNotMounted, HasMountpoint
<1>6. NamesHeld' /\ LiveMountsIntact'
  BY <1>1, <1>2, <1>3, <1>5 DEF TruthInv, NamesHeld, LiveMountsIntact, TypeOK, Mounts
<1>7. TargetsNotMounted' /\ EntriesMounted' /\ AttachTargetFree' /\ NothingStale'
  BY <1>3 DEF TruthInv, TargetsNotMounted, HasMountpoint, EntriesMounted,
              AttachTargetFree, NothingStale
<1>8. TruthfulMap(diskMap)' /\ MapTruthful' /\ LabelsCoverMap' /\ Injective(slot)'
  BY <1>2, <1>3 DEF TruthInv, TruthfulMap, MapTruthful, LabelsCoverMap, Keys, Injective
<1> QED
  BY <1>4, <1>6, <1>7, <1>8 DEF TruthInv

\* mount(8): one more mount, of the disk behind the name now.
LEMMA AttachTruthInv ==
    ASSUME TruthInv, TypeOK', AttachDevice
    PROVE  TruthInv'
<1> DEFINE d == slot[job.dev]
           new == [target |-> job.uuid, dev |-> job.dev, disk |-> d, uuid |-> fs[d].uuid]
<1>1. mounts' = mounts \cup {new}
  BY DEF AttachDevice
<1>2. UNCHANGED <<slot, fs, seen, entries, diskMap, prevUUIDs, labels, annotation, published>>
      /\ pc' = "mounting"
  BY DEF AttachDevice, MountReturns, node
<1>3. NamesHeld' /\ LiveMountsIntact'
  BY <1>1, <1>2 DEF TruthInv, NamesHeld, LiveMountsIntact
<1>4. EntriesMounted' /\ TruthfulMap(diskMap)' /\ MapTruthful' /\ LabelsCoverMap'
  BY <1>1, <1>2 DEF TruthInv, EntriesMounted, TruthfulMap, MapTruthful, LabelsCoverMap, Keys
<1>5. Injective(slot)' /\ Accurate' /\ TargetsNotMounted' /\ AttachTargetFree' /\ NothingStale'
  BY <1>2 DEF TruthInv, Injective, Accurate, TargetsNotMounted,
              AttachTargetFree, NothingStale
<1> QED
  BY <1>3, <1>4, <1>5 DEF TruthInv

\* One lookup: the UUID of a name with a mount on it is that of the mount.
LEMMA LookupTruthInv ==
    ASSUME TruthInv, TypeOK', NEW m \in entries, LookupUUID(m)
    PROVE  TruthInv'
<1>1. UNCHANGED <<slot, fs, seen, mounts, labels, annotation, published>>
      /\ entries' \subseteq entries /\ pc' = "lookup"
  BY DEF LookupUUID, machine, node, history
<1>2. m \in mounts /\ m.dev \in Devs /\ m.disk \in Disks /\ TypeOK
  BY DEF TruthInv, EntriesMounted, TypeOK, Mounts
<1>3. SourceUUID(m.dev) # NoUUID => SourceUUID(m.dev) = m.uuid
  BY <1>2 DEF SourceUUID, Present, TruthInv, NamesHeld, LiveMountsIntact, Accurate,
              Unprobed
<1>4. TruthfulMap(diskMap)'
  <2>1. CASE diskMap' = diskMap
    BY <1>1, <2>1 DEF TruthInv, TruthfulMap, Keys
  <2>2. CASE SourceUUID(m.dev) # NoUUID
             /\ diskMap' = [diskMap EXCEPT ![SourceUUID(m.dev)] = m.target]
    BY <1>1, <1>2, <1>3, <2>2 DEF TruthInv, TruthfulMap, Keys, TypeOK, DiskMaps
  <2> QED
    BY <2>1, <2>2 DEF LookupUUID
<1>5. NamesHeld' /\ LiveMountsIntact' /\ Injective(slot)' /\ Accurate'
  BY <1>1 DEF TruthInv, NamesHeld, LiveMountsIntact, Injective, Accurate
<1>6. EntriesMounted' /\ MapTruthful' /\ LabelsCoverMap'
  BY <1>1 DEF TruthInv, EntriesMounted, MapTruthful, LabelsCoverMap, Keys
<1>7. TargetsNotMounted' /\ AttachTargetFree' /\ NothingStale'
  BY <1>1 DEF TargetsNotMounted, AttachTargetFree, NothingStale
<1> QED
  BY <1>4, <1>5, <1>6, <1>7 DEF TruthInv

\* The process ends a scan early or dies: nothing it published changes.
LEMMA DropLocalsTruthInv ==
    ASSUME TruthInv, TypeOK', UNCHANGED <<machine, node, published>>,
           entries' \subseteq entries, diskMap' = EmptyMap,
           pc' \notin {"format", "attach", "patch"}
    PROVE  TruthInv'
<1>1. TruthfulMap(diskMap)'
  BY EmptyMapHasNoKeys DEF TruthfulMap, Keys
<1>2. NamesHeld' /\ LiveMountsIntact' /\ Injective(slot)' /\ Accurate'
  BY DEF machine, TruthInv, NamesHeld, LiveMountsIntact, Injective, Accurate
<1>3. EntriesMounted' /\ MapTruthful' /\ LabelsCoverMap'
  BY DEF machine, node, TruthInv, EntriesMounted, MapTruthful, LabelsCoverMap, Keys
<1>4. TargetsNotMounted' /\ AttachTargetFree' /\ NothingStale'
  BY DEF TargetsNotMounted, AttachTargetFree, NothingStale
<1> QED
  BY <1>1, <1>2, <1>3, <1>4 DEF TruthInv

\* The patch: the map that is written is truthful.
LEMMA PatchTruthInv ==
    ASSUME TruthInv, TypeOK', PatchNode
    PROVE  TruthInv'
<1>1. UNCHANGED <<slot, fs, seen, mounts, entries>> /\ pc' = "idle"
  BY DEF PatchNode, machine
<1>2. annotation' = diskMap /\ diskMap' = EmptyMap /\ Keys(diskMap) \subseteq labels'
  BY DEF PatchNode, PatchedAnnotation, PatchedLabels
<1>3. MapTruthful' /\ LabelsCoverMap'
  BY <1>1, <1>2 DEF TruthInv, TruthfulMap, MapTruthful, LabelsCoverMap, Keys
<1>4. TruthfulMap(diskMap)'
  BY <1>2, EmptyMapHasNoKeys DEF TruthfulMap, Keys
<1>5. NamesHeld' /\ LiveMountsIntact' /\ Injective(slot)' /\ Accurate' /\ EntriesMounted'
  BY <1>1 DEF TruthInv, NamesHeld, LiveMountsIntact, Injective, Accurate, EntriesMounted
<1>6. TargetsNotMounted' /\ AttachTargetFree' /\ NothingStale'
  BY <1>1 DEF TargetsNotMounted, AttachTargetFree, NothingStale
<1> QED
  BY <1>3, <1>4, <1>5, <1>6 DEF TruthInv

\* A disk comes or goes: a name changes that has no live mount on it after.
LEMMA PlugTruthInv ==
    ASSUME TruthInv, TypeOK', NEW dev \in Devs,
           Unplug(dev) \/ (\E d \in Disks : Plug(d, dev)) \/ UdevCatchUp(dev)
    PROVE  TruthInv'
<1>1. UNCHANGED <<fs, mounts, pc, toFormat, job, entries, diskMap, prevUUIDs,
                  labels, annotation, published>>
  BY DEF Unplug, Plug, UdevCatchUp, process, node, history
<1>2. TypeOK /\ Injective(slot) /\ Accurate
  BY DEF TruthInv
<1>3. Accurate'
  <2>1. \A e \in Devs : e # dev => slot'[e] = slot[e] /\ seen'[e] = seen[e]
    BY <1>2 DEF Unplug, Plug, UdevCatchUp, TypeOK
  <2>2. IF slot'[dev] = NoDisk THEN seen'[dev] = Blank
                               ELSE seen'[dev] \in {Unprobed, fs[slot'[dev]]}
    <3>1. CASE Unplug(dev)
      BY <1>2, <3>1 DEF Unplug, TypeOK
    <3>2. ASSUME NEW d \in Disks, Plug(d, dev)
          PROVE  slot'[dev] = d /\ d # NoDisk /\ seen'[dev] \in {Unprobed, fs[d]}
      BY <1>2, <3>2, DisksAssumption DEF Plug, TypeOK
    <3>3. CASE UdevCatchUp(dev)
      BY <1>2, <3>3 DEF UdevCatchUp, Present, TypeOK
    <3> QED
      BY <3>1, <3>2, <3>3
  <2> QED
    BY <1>1, <1>2, <2>1, <2>2 DEF Accurate
<1>4. Injective(slot)'
  BY <1>2 DEF Unplug, Plug, UdevCatchUp, Injective, Plugged, TypeOK
<1>5. NamesHeld' /\ LiveMountsIntact'
  <2> SUFFICES ASSUME NEW m \in mounts
               PROVE  /\ slot'[m.dev] \in {m.disk, NoDisk}
                      /\ slot'[m.dev] = m.disk => fs[m.disk].uuid = m.uuid
    BY <1>1 DEF NamesHeld, LiveMountsIntact
  <2>1. m.dev \in Devs /\ m.disk \in Disks
    BY <1>2 DEF TypeOK, Mounts
  <2>2. slot'[m.dev] = slot[m.dev] \/ slot'[m.dev] = NoDisk
    BY <1>2, <2>1 DEF Unplug, Plug, UdevCatchUp, HasMountpoint, TypeOK
  <2> QED
    BY <2>1, <2>2, DisksAssumption DEF TruthInv, NamesHeld, LiveMountsIntact
<1>6. TargetsNotMounted' /\ EntriesMounted' /\ AttachTargetFree' /\ NothingStale'
  BY <1>1 DEF TruthInv, TargetsNotMounted, HasMountpoint, EntriesMounted,
              AttachTargetFree, AlreadyMounted, NothingStale, Keys
<1>7. TruthfulMap(diskMap)' /\ MapTruthful' /\ LabelsCoverMap'
  BY <1>1 DEF TruthInv, TruthfulMap, MapTruthful, LabelsCoverMap, Keys
<1> QED
  BY <1>3, <1>4, <1>5, <1>6, <1>7 DEF TruthInv

LEMMA RebootTruthInv ==
    ASSUME TruthInv, TypeOK', Reboot
    PROVE  TruthInv'
<1>1. Injective(slot)' /\ Accurate'
  BY DEF Reboot, Placements, Accurate, Observed
<1>2. TruthfulMap(diskMap)'
  BY EmptyMapHasNoKeys DEF Reboot, ProcessStops, TruthfulMap, Keys
<1> QED
  BY <1>1, <1>2
     DEF TruthInv, Reboot, ProcessStops, node, NamesHeld, LiveMountsIntact,
         TargetsNotMounted, EntriesMounted, AttachTargetFree, NothingStale,
         MapTruthful, LabelsCoverMap, Keys

LEMMA RecreateTruthInv ==
    ASSUME TruthInv, TypeOK', NodeRecreated
    PROVE  TruthInv'
<1>1. MapTruthful' /\ LabelsCoverMap'
  BY EmptyMapHasNoKeys DEF NodeRecreated, MapTruthful, LabelsCoverMap, Keys
<1> QED
  BY <1>1
     DEF TruthInv, NodeRecreated, machine, process, Injective, Accurate, Observed,
         NamesHeld, LiveMountsIntact, TargetsNotMounted, HasMountpoint, EntriesMounted,
         TruthfulMap, Keys, AttachTargetFree, AlreadyMounted, NothingStale

LEMMA NextTruthInv ==
    ASSUME "settle" \notin FaultKinds
    PROVE  TruthInv /\ [Next]_vars => TruthInv'
<1> SUFFICES ASSUME TruthInv, [Next]_vars PROVE TruthInv'
  OBVIOUS
<1>t. TypeOK /\ TypeOK'
  BY NextTypeOK DEF TruthInv
<1>1. CASE ScanStart \/ InitFails
  BY <1>1, <1>t, QuietStepTruthInv DEF ScanStart, InitFails, Formattable, history
<1>2. ASSUME NEW dev \in Devs, FormatTarget(dev) PROVE TruthInv'
  BY <1>2, <1>t, FormatTruthInv
<1>3. ASSUME NEW dev \in Devs, FormatFails(dev) PROVE TruthInv'
  BY <1>3, <1>t, QuietStepTruthInv DEF FormatFails, history
<1>4. CASE ScanUnmounted \/ ScanUnmountedFails
  BY <1>4, <1>t, QuietStepTruthInv DEF ScanUnmounted, ScanUnmountedFails, history
<1>5. ASSUME NEW entry \in toMount,
             ResolveFails(entry) \/ \E dev \in Devs : ResolveUUID(entry, dev)
      PROVE  TruthInv'
  BY <1>5, <1>t, QuietStepTruthInv DEF ResolveFails, ResolveUUID, history
<1>6. CASE PassRootGuard \/ RefuseRootDisk \/ RefuseDevice \/ AttachFails
  BY <1>6, <1>t, QuietStepTruthInv
     DEF PassRootGuard, RefuseRootDisk, RefuseDevice, AttachFails, MountReturns, history
<1>7. CASE CheckDevice
  BY <1>7, <1>t, QuietStepTruthInv DEF CheckDevice, MountReturns, history
<1>8. CASE AttachDevice
  BY <1>8, <1>t, AttachTruthInv
<1>9. CASE ScanMounted
  <2>1. TruthfulMap(diskMap)'
    BY <1>9, EmptyMapHasNoKeys DEF ScanMounted, TruthfulMap, Keys
  <2>2. NamesHeld' /\ LiveMountsIntact' /\ Injective(slot)' /\ Accurate' /\ EntriesMounted'
    BY <1>9 DEF ScanMounted, machine, TruthInv, NamesHeld, LiveMountsIntact, Injective,
                Accurate, EntriesMounted
  <2>3. MapTruthful' /\ LabelsCoverMap'
    BY <1>9 DEF ScanMounted, machine, node, history, TruthInv, MapTruthful, LabelsCoverMap, Keys
  <2>4. TargetsNotMounted' /\ AttachTargetFree' /\ NothingStale'
    BY <1>9 DEF ScanMounted, TargetsNotMounted, AttachTargetFree, NothingStale
  <2> QED
    BY <1>t, <2>1, <2>2, <2>3, <2>4 DEF TruthInv
<1>10. CASE ScanMountedFails \/ RememberUUIDs \/ Restart
  BY <1>10, <1>t, QuietStepTruthInv DEF ScanMountedFails, RememberUUIDs, Restart, history
<1>11. ASSUME NEW m \in entries, LookupUUID(m) PROVE TruthInv'
  BY <1>11, <1>t, LookupTruthInv
<1>12. CASE PatchNode
  BY <1>12, <1>t, PatchTruthInv
<1>13. CASE PatchFails \/ Crash
  BY <1>13, <1>t, DropLocalsTruthInv DEF PatchFails, Crash, ProcessStops, history
<1>14. ASSUME NEW dev \in Devs,
              Unplug(dev) \/ UdevCatchUp(dev) \/ \E d \in Disks : Plug(d, dev)
       PROVE  TruthInv'
  BY <1>14, <1>t, PlugTruthInv
<1>15. CASE Reboot
  BY <1>15, <1>t, RebootTruthInv
<1>16. CASE NodeRecreated
  BY <1>16, <1>t, RecreateTruthInv
<1>17. CASE UNCHANGED vars
  BY <1>17, <1>t, QuietStepTruthInv
     DEF vars, process, history, TruthInv, TargetsNotMounted, AttachTargetFree, NothingStale
<1> QED
  BY <1>1, <1>2, <1>3, <1>4, <1>5, <1>6, <1>7, <1>8, <1>9, <1>10, <1>11, <1>12,
     <1>13, <1>14, <1>15, <1>16, <1>17 DEF Next, ScanStep, Environment

\* As long as udevadm settle does not fail, the directory published for a UUID
\* has the filesystem with that UUID mounted on it, whatever else fails and
\* even when kernel names are reused in the middle of a scan and lsblk is asked
\* before udev has looked at a disk.
THEOREM MapIsTruthful ==
    ASSUME "settle" \notin FaultKinds
    PROVE  Spec => []MapTruthful
<1>1. TruthInv => MapTruthful
  BY DEF TruthInv
<1>2. TruthInv /\ [Next]_vars => TruthInv'
  BY NextTruthInv
<1> QED
  BY <1>1, <1>2, InitTruthInv, PTL DEF Spec

-----------------------------------------------------------------------------
(***************************************************************************)
(* Labels cover the annotation whatever fails.                             *)
(***************************************************************************)

LEMMA NextLabelsCoverMap == LabelsCoverMap /\ [Next]_vars => LabelsCoverMap'
<1> SUFFICES ASSUME LabelsCoverMap, [Next]_vars PROVE LabelsCoverMap'
  OBVIOUS
<1>1. CASE PatchNode
  BY <1>1 DEF PatchNode, PatchedLabels, PatchedAnnotation, LabelsCoverMap, Keys
<1>2. CASE NodeRecreated
  BY <1>2, EmptyMapHasNoKeys DEF NodeRecreated, LabelsCoverMap, Keys
<1>3. CASE UNCHANGED <<labels, annotation>>
  BY <1>3 DEF LabelsCoverMap, Keys
<1>4. PatchNode \/ NodeRecreated \/ UNCHANGED <<labels, annotation>>
  BY DEF Next, ScanStep, Environment, vars, node,
         ScanStart, InitFails, FormatTarget, FormatFails, ScanUnmounted,
         ScanUnmountedFails, ResolveFails, ResolveUUID, PassRootGuard,
         RefuseRootDisk, CheckDevice, RefuseDevice, AttachDevice, AttachFails,
         ScanMounted, ScanMountedFails, LookupUUID, RememberUUIDs, PatchFails,
         Restart, Crash, Unplug, UdevCatchUp, Plug, Reboot
<1> QED
  BY <1>1, <1>2, <1>3, <1>4

\* Every disk in the disk-map annotation has its has-uuid label.
THEOREM LabelsAlwaysCoverMap == Spec => []LabelsCoverMap
<1>1. Init => LabelsCoverMap
  BY EmptyMapHasNoKeys DEF Init, LabelsCoverMap
<1> QED
  BY <1>1, NextLabelsCoverMap, PTL DEF Spec
=============================================================================
