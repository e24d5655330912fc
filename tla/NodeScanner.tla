----------------------------- MODULE NodeScanner -----------------------------
(***************************************************************************)
(* The node scanner: one process per node that, every ScanInterval,        *)
(* formats raw disks, mounts the formatted ones under the mount base,      *)
(* reads the mounts back and publishes them on the Node object as labels   *)
(* and as the disk-map annotation.                                         *)
(*                                                                         *)
(* The process is sequential, but every step reads the machine again       *)
(* through lsblk, udev symlinks or /proc/self/mountinfo, and disks come    *)
(* and go between any two reads.  What is modelled is that race: an action *)
(* per read or effect of scan(), and the machine (plug, unplug, udev       *)
(* lagging, crash of the pod, reboot, Node object recreated) around it.    *)
(*                                                                         *)
(* A "disk" here is a unit that can carry one filesystem: a bare disk or a *)
(* partition.  A bare disk that only holds a partition table is the        *)
(* content Parts.  RootParts are partitions next to the one with "/".      *)
(***************************************************************************)
EXTENDS Naturals, FiniteSets

CONSTANTS
    Disks, NoDisk,      \* physical disks, and an empty slot
    UUIDs, NoUUID,      \* filesystem UUIDs, and "none" ("" or "N/A")
    NumDevs,            \* kernel names /dev/sd<i>, i \in 1..NumDevs, in lsblk order
    RawSize,            \* size of the block device, by disk (lsblk SIZE)
    FsSize,             \* size of a filesystem made on it (statfs), by disk
    MinSize,            \* the --min-size option
    Unformattable,      \* disks on which mkfs always fails
    RootParts,          \* partitions of the disk that hosts "/" of the machine
    RootVisible,        \* does "/" in mountinfo name one of lsblk's devices?
    InitialFs,          \* the contents the disks may have at the start
    FaultKinds,         \* the faults and disturbances that may happen
    MaxFaults           \* and how many of them: a bound of the model

Devs == 1..NumDevs

\* "ours" is ext4 with the label mkfs was given (commonlib.DefaultLabel),
\* "ext4" has another label, "other" is another filesystem type.
FileSystems == [uuid : UUIDs, kind : {"ours", "ext4", "other"}]
Blank == [uuid |-> NoUUID, kind |-> "none"]
Parts == [uuid |-> NoUUID, kind |-> "parts"]
Contents == FileSystems \cup {Blank, Parts}

\* What lsblk shows of a disk that udev has not looked at: no filesystem type,
\* no UUID and no partitions, like a raw one.
Unprobed == [uuid |-> NoUUID, kind |-> "unprobed"]

\* No two disks carry the same filesystem.
DistinctUUIDs(f) ==
    \A d, e \in Disks : f[d].uuid = f[e].uuid /\ f[d].uuid # NoUUID => d = e

ASSUME DisksAssumption == NoDisk \notin Disks
ASSUME UUIDsAssumption == NoUUID \notin UUIDs
ASSUME NumDevsAssumption == NumDevs \in Nat
ASSUME SizesAssumption ==
    /\ MinSize \in Nat
    /\ RawSize \in [Disks -> Nat]
    /\ FsSize \in [Disks -> Nat]
    /\ \A d \in Disks : FsSize[d] <= RawSize[d]
ASSUME RootAssumption == RootParts \subseteq Disks /\ RootVisible \in BOOLEAN
ASSUME InitialFsAssumption ==
    InitialFs \subseteq {f \in [Disks -> Contents] : DistinctUUIDs(f)}
ASSUME MaxFaultsAssumption == MaxFaults \in Nat

VARIABLES
    \* the machine
    slot,       \* the disk behind each kernel name
    fs,         \* what each disk carries
    seen,       \* what lsblk and the by-uuid symlinks say of each name
    mounts,     \* mounts under the mount base, dead ones included
    \* the scanner process
    pc,         \* where scan() is
    toFormat,   \* names Init has still to format
    toMount,    \* devices ScanUnmounted returned that are still to be mounted
    job,        \* the UUID Mount works on and the name it resolved to
    entries,    \* mounts GetMounts returned that are still to be looked up
    diskMap,    \* the map built so far
    prevUUIDs,  \* Scanner.prevUUIDs
    \* the Node object
    labels,     \* UUIDs u with label agent.cubbit.io/has-uuid-<u>
    annotation, \* the disk-map annotation: UUID -> directory, or NoUUID
    \* history, read only by properties and by the bounds
    minted,     \* every UUID there has been
    precious,   \* contents somebody may miss: initial ones, mounted ones
    exposed,    \* disks the scanner has met too early or under a name in use
    published,  \* has the Node been patched since the machine booted?
    faults      \* how many faults there have been

machine == <<slot, fs, seen, mounts>>
process == <<pc, toFormat, toMount, job, entries, diskMap, prevUUIDs>>
node == <<labels, annotation>>
history == <<minted, precious, exposed, published>>
vars == <<machine, process, node, history, faults>>

-----------------------------------------------------------------------------
(***************************************************************************)
(* What one read of the machine returns.                                   *)
(***************************************************************************)

Plugged(d) == \E dev \in Devs : slot[dev] = d

Present(dev) == slot[dev] # NoDisk

\* lsblk's MOUNTPOINT column.
HasMountpoint(dev) == \E m \in mounts : m.dev = dev

\* A mutant: anything without partitions is formatted.
FormattableAnyContent(dev) ==
    /\ Present(dev) /\ slot[dev] \notin RootParts
    /\ seen[dev] # Parts
    /\ ~HasMountpoint(dev)
    /\ RawSize[slot[dev]] >= MinSize

\* The devices Init chooses: top level, no children, no filesystem, not
\* mounted, large enough.  Nothing makes sure that udev has looked at them.
Formattable(dev) ==
    /\ Present(dev) /\ slot[dev] \notin RootParts
    /\ seen[dev] \in {Blank, Unprobed}
    /\ ~HasMountpoint(dev)
    /\ RawSize[slot[dev]] >= MinSize

\* Disks Init takes for raw before udev has found out that they are not.
MistakenForRaw ==
    {slot[dev] : dev \in {e \in Devs : /\ Formattable(e)
                                      /\ seen[e] = Unprobed
                                      /\ fs[slot[e]] # Blank}}

\* A mutant: neither the filesystem type nor the "N/A" UUID is looked at.
ListableUnfiltered(dev) ==
    /\ Present(dev)
    /\ ~HasMountpoint(dev)
    /\ RawSize[slot[dev]] >= MinSize

\* The devices scan() passes to Mount: ScanUnmounted's filters, and a UUID.
Listable(dev) ==
    /\ Present(dev)
    /\ ~HasMountpoint(dev)
    /\ seen[dev].kind \in {"ours", "ext4"}
    /\ RawSize[slot[dev]] >= MinSize
    /\ seen[dev].uuid # NoUUID

\* The root-disk guard: silent when "/" is not one of lsblk's devices.
RootGuardPasses(dev) ==
    RootVisible /\ Present(dev) => slot[dev] \notin RootParts

\* A mutant: the label is not compared.
LabelIgnored(dev) == Present(dev)

\* ManagedOnly: the device must be there and carry our label.
LabelMatches(dev) == Present(dev) /\ seen[dev].kind = "ours"

\* A mutant: the mount point is not probed.
MountPointUnprobed(uuid) == FALSE

\* IsLikelyNotMountPoint, negated; a dead mount is a mount point.
AlreadyMounted(uuid) == \E m \in mounts : m.target = uuid

\* A mutant: a mount of exactly the minimum size is dropped.
PassesMountFilterStrictly(m) == FsSize[m.disk] > MinSize

\* The mounts GetMounts returns: under the prefix, ext4, and with a statfs
\* size that reaches the minimum.  One whose statfs fails is left out, as one
\* whose UUID cannot be read is in LookupUUID.
PassesMountFilter(m) == FsSize[m.disk] >= MinSize

\* lsblk --output UUID for the source of a mount; a name that is gone has none.
SourceUUID(dev) == IF Present(dev) THEN seen[dev].uuid ELSE NoUUID

EmptyMap == [u \in UUIDs |-> NoUUID]

\* The disks a map has an entry for.
Keys(map) == {u \in UUIDs : map[u] # NoUUID}

\* A mutant: the keys to null are not compared with the current ones.
PatchedLabelsNullingAll(current) == (labels \cup current) \ prevUUIDs

\* patchNode: "true" for the current disks, null for the ones that went.
PatchedLabels(current) == (labels \cup current) \ (prevUUIDs \ current)

\* A mutant: entries are merged into the annotation, as labels are.
PatchedAnnotationMerged(map) ==
    [u \in UUIDs |-> IF map[u] # NoUUID THEN map[u] ELSE annotation[u]]

\* patchNode: the annotation is overwritten.
PatchedAnnotation(map) == map

\* lsblk lists devices in name order and the loops of scan() follow it.
IsFirst(dev, S) == dev \in S /\ \A e \in S : dev <= e

NoJob == [uuid |-> NoUUID, dev |-> 0]

\* A fault or a disturbance of kind k, while the bound allows one more.
Fault(k) ==
    /\ k \in FaultKinds
    /\ faults < MaxFaults
    /\ faults' = faults + 1

NoFault == UNCHANGED faults

-----------------------------------------------------------------------------
Injective(s) == \A a, b \in Devs : s[a] = s[b] /\ s[a] # NoDisk => a = b

Placements == {s \in [Devs -> Disks \cup {NoDisk}] : Injective(s)}

\* udev has settled, as it has when the kubelet starts pods: names show what the disks behind them carry.
Observed(s, f) ==
    [dev \in Devs |-> IF s[dev] = NoDisk THEN Blank ELSE f[s[dev]]]

Init ==
    /\ slot \in Placements
    /\ \A d \in RootParts : Plugged(d)
    /\ fs \in InitialFs
    /\ seen = Observed(slot, fs)
    /\ mounts = {}
    /\ pc = "idle"
    /\ toFormat = {}
    /\ toMount = {}
    /\ job = NoJob
    /\ entries = {}
    /\ diskMap = EmptyMap
    /\ prevUUIDs = {}
    /\ labels = {}
    /\ annotation = EmptyMap
    /\ minted = {fs[d].uuid : d \in Disks} \ {NoUUID}
    /\ precious = {fs[d] : d \in Disks} \ {Blank}
    /\ exposed = {}
    /\ published = FALSE
    /\ faults = 0

-----------------------------------------------------------------------------
(***************************************************************************)
(* scan(), step 1: format raw disks.                                       *)
(***************************************************************************)

\* A tick: Init enumerates the devices and collects the names to format.
ScanStart ==
    /\ pc = "idle"
    /\ pc' = "format"
    /\ toFormat' = {dev \in Devs : Formattable(dev)}
    /\ exposed' = exposed \cup MistakenForRaw
    /\ NoFault
    /\ UNCHANGED <<machine, toMount, job, entries, diskMap, prevUUIDs, node,
                   minted, precious, published>>

\* lsblk fails in Init: the error is logged and the scan goes on.
InitFails ==
    /\ pc = "idle"
    /\ Fault("read")
    /\ pc' = "format"
    /\ toFormat' = {}
    /\ UNCHANGED <<machine, toMount, job, entries, diskMap, prevUUIDs, node, history>>

\* mkfs on the next name, whatever disk is behind it by now, then udevadm
\* settle, whose failure is only logged and leaves lsblk with what it knew.
FormatTarget(dev) ==
    /\ pc = "format"
    /\ IsFirst(dev, toFormat)
    /\ Present(dev)
    /\ slot[dev] \notin Unformattable
    /\ toFormat' = toFormat \ {dev}
    /\ \E u \in UUIDs \ minted :
          /\ minted' = minted \cup {u}
          /\ fs' = [fs EXCEPT ![slot[dev]] = [uuid |-> u, kind |-> "ours"]]
          /\ \/ /\ seen' = [seen EXCEPT ![dev] = [uuid |-> u, kind |-> "ours"]]
                /\ NoFault
             \/ /\ Fault("settle")
                /\ UNCHANGED seen
    /\ UNCHANGED <<slot, mounts, pc, toMount, job, entries, diskMap,
                   prevUUIDs, node, precious, exposed, published>>

\* mkfs fails: Init returns at once and leaves the remaining names for the
\* next scan.
FormatFails(dev) ==
    /\ pc = "format"
    /\ IsFirst(dev, toFormat)
    /\ \/ /\ ~Present(dev) \/ slot[dev] \in Unformattable
          /\ NoFault
       \/ /\ Present(dev) /\ slot[dev] \notin Unformattable
          /\ Fault("mkfs")
    /\ toFormat' = {}
    /\ UNCHANGED <<machine, pc, toMount, job, entries, diskMap, prevUUIDs, node, history>>

(***************************************************************************)
(* scan(), step 2: mount what is formatted and not mounted.                *)
(***************************************************************************)

ScanUnmounted ==
    /\ pc = "format" /\ toFormat = {}
    /\ pc' = "mounting"
    /\ toMount' = {[dev |-> dev, uuid |-> seen[dev].uuid] :
                      dev \in {e \in Devs : Listable(e)}}
    /\ NoFault
    /\ UNCHANGED <<machine, toFormat, job, entries, diskMap, prevUUIDs, node, history>>

\* lsblk fails: the scan is abandoned until the next tick.
ScanUnmountedFails ==
    /\ pc = "format" /\ toFormat = {}
    /\ Fault("read")
    /\ pc' = "idle"
    /\ UNCHANGED <<machine, toFormat, toMount, job, entries, diskMap, prevUUIDs, node, history>>

NextToMount(entry) ==
    /\ entry \in toMount
    /\ \A e \in toMount : entry.dev <= e.dev

\* Mount turns the UUID back into a device, possibly another one than listed.
ResolveUUID(entry, dev) ==
    /\ pc = "mounting"
    /\ NextToMount(entry)
    /\ Present(dev) /\ seen[dev].uuid = entry.uuid
    /\ pc' = "guard"
    /\ toMount' = toMount \ {entry}
    /\ job' = [uuid |-> entry.uuid, dev |-> dev]
    /\ NoFault
    /\ UNCHANGED <<machine, toFormat, entries, diskMap, prevUUIDs, node, history>>

ResolveFails(entry) ==
    /\ pc = "mounting"
    /\ NextToMount(entry)
    /\ \A dev \in Devs : ~(Present(dev) /\ seen[dev].uuid = entry.uuid)
    /\ toMount' = toMount \ {entry}
    /\ NoFault
    /\ UNCHANGED <<machine, pc, toFormat, job, entries, diskMap, prevUUIDs, node, history>>

\* Mount returns, with or without an error: the loop goes on either way.
MountReturns ==
    /\ pc' = "mounting"
    /\ job' = NoJob

\* checkNotRootDisk lets the device pass; it also does when it cannot tell.
PassRootGuard ==
    /\ pc = "guard"
    /\ \/ RootGuardPasses(job.dev) /\ NoFault
       \/ ~RootGuardPasses(job.dev) /\ Fault("read")
    /\ pc' = "check"
    /\ UNCHANGED <<machine, toFormat, toMount, job, entries, diskMap, prevUUIDs, node, history>>

RefuseRootDisk ==
    /\ pc = "guard"
    /\ ~RootGuardPasses(job.dev)
    /\ MountReturns
    /\ NoFault
    /\ UNCHANGED <<machine, toFormat, toMount, entries, diskMap, prevUUIDs, node, history>>

\* The label is ours: the directory is made if need be, and a mount point is
\* left alone.
CheckDevice ==
    /\ pc = "check"
    /\ LabelMatches(job.dev)
    /\ IF AlreadyMounted(job.uuid)
          THEN MountReturns
          ELSE pc' = "attach" /\ UNCHANGED job
    /\ NoFault
    /\ UNCHANGED <<machine, toFormat, toMount, entries, diskMap, prevUUIDs, node, history>>

\* No such device, another label, or lsblk failed.
RefuseDevice ==
    /\ pc = "check"
    /\ \/ ~LabelMatches(job.dev) /\ NoFault
       \/ LabelMatches(job.dev) /\ Fault("read")
    /\ MountReturns
    /\ UNCHANGED <<machine, toFormat, toMount, entries, diskMap, prevUUIDs, node, history>>

\* mount(8): the disk behind the name now, at the directory of the UUID.
CanAttach(dev) ==
    Present(dev) /\ fs[slot[dev]].kind \in {"ours", "ext4"}

AttachDevice ==
    /\ pc = "attach"
    /\ CanAttach(job.dev)
    /\ LET d == slot[job.dev] IN
          /\ mounts' = mounts \cup
                {[target |-> job.uuid, dev |-> job.dev, disk |-> d, uuid |-> fs[d].uuid]}
          /\ precious' = precious \cup {fs[d]}
    /\ MountReturns
    /\ NoFault
    /\ UNCHANGED <<slot, fs, seen, toFormat, toMount, entries, diskMap,
                   prevUUIDs, node, minted, exposed, published>>

AttachFails ==
    /\ pc = "attach"
    /\ \/ ~CanAttach(job.dev) /\ NoFault
       \/ CanAttach(job.dev) /\ Fault("mount")
    /\ MountReturns
    /\ UNCHANGED <<machine, toFormat, toMount, entries, diskMap, prevUUIDs, node, history>>

(***************************************************************************)
(* scan(), step 3: read the mounts back and build the map.                 *)
(***************************************************************************)

ScanMounted ==
    /\ pc = "mounting" /\ toMount = {}
    /\ pc' = "lookup"
    /\ entries' = {m \in mounts : PassesMountFilter(m)}
    /\ diskMap' = EmptyMap
    /\ NoFault
    /\ UNCHANGED <<machine, toFormat, toMount, job, prevUUIDs, node, history>>

ScanMountedFails ==
    /\ pc = "mounting" /\ toMount = {}
    /\ Fault("read")
    /\ pc' = "idle"
    /\ UNCHANGED <<machine, toFormat, toMount, job, entries, diskMap, prevUUIDs, node, history>>

\* getUUID of one mount: one lsblk call, whose failure counts as "N/A".
LookupUUID(m) ==
    /\ pc = "lookup"
    /\ m \in entries
    /\ entries' = entries \ {m}
    /\ \/ /\ diskMap' = IF SourceUUID(m.dev) = NoUUID THEN diskMap
                        ELSE [diskMap EXCEPT ![SourceUUID(m.dev)] = m.target]
          /\ NoFault
       \/ /\ Fault("read")
          /\ UNCHANGED diskMap
    /\ UNCHANGED <<machine, pc, toFormat, toMount, job, prevUUIDs, node, history>>

\* prevUUIDs is overwritten before the patch that was to compare with it.
RememberUUIDs ==
    /\ pc = "lookup" /\ entries = {}
    /\ pc' = "patch"
    /\ prevUUIDs' = Keys(diskMap)
    /\ NoFault
    /\ UNCHANGED <<machine, toFormat, toMount, job, entries, diskMap, node, history>>

(***************************************************************************)
(* scan(), step 4: patch the Node object.                                  *)
(***************************************************************************)

\* The API server applies the patch.  Nothing in the scanner depends on the
\* answer, so an answer that is lost is this step too.
PatchNode ==
    /\ pc = "patch"
    /\ pc' = "idle"
    /\ labels' = PatchedLabels(Keys(diskMap))
    /\ annotation' = PatchedAnnotation(diskMap)
    /\ diskMap' = EmptyMap
    /\ published' = TRUE
    /\ NoFault
    /\ UNCHANGED <<machine, toFormat, toMount, job, entries, prevUUIDs,
                   minted, precious, exposed>>

\* The request is refused or never arrives.
PatchFails ==
    /\ pc = "patch"
    /\ Fault("patch")
    /\ pc' = "idle"
    /\ diskMap' = EmptyMap
    /\ UNCHANGED <<machine, toFormat, toMount, job, entries, prevUUIDs, node, history>>

(***************************************************************************)
(* The pod: a crash loses the locals of scan() and prevUUIDs.              *)
(***************************************************************************)

ProcessStops ==
    /\ pc' = "down"
    /\ toFormat' = {} /\ toMount' = {} /\ job' = NoJob
    /\ entries' = {} /\ diskMap' = EmptyMap /\ prevUUIDs' = {}

Crash ==
    /\ pc # "down"
    /\ Fault("crash")
    /\ ProcessStops
    /\ UNCHANGED <<machine, node, history>>

Restart ==
    /\ pc = "down"
    /\ pc' = "idle"
    /\ NoFault
    /\ UNCHANGED <<machine, toFormat, toMount, job, entries, diskMap, prevUUIDs, node, history>>

-----------------------------------------------------------------------------
(***************************************************************************)
(* The machine and the cluster around the scanner.                         *)
(***************************************************************************)

\* A disk is pulled out, though not from under the running system.  Its mount
\* stays, dead, and keeps the kernel name.
Unplug(dev) ==
    /\ Present(dev) /\ slot[dev] \notin RootParts
    /\ Fault("unplug")
    /\ slot' = [slot EXCEPT ![dev] = NoDisk]
    /\ seen' = [seen EXCEPT ![dev] = Blank]
    /\ UNCHANGED <<fs, mounts, process, node, history>>

\* The scanner is between reading a name and using it.
NameInUse(dev) == dev \in toFormat \/ dev = job.dev

\* A disk appears under a free kernel name.  That lsblk may be asked before
\* udev has looked at it is the disturbance "lag": nobody waits for udev here.
\* That the name was just given up by another disk the scanner is busy with is
\* the disturbance "swap", with or without a lag.
Plug(d, dev) ==
    /\ ~Plugged(d)
    /\ ~Present(dev)
    /\ ~HasMountpoint(dev)
    /\ slot' = [slot EXCEPT ![dev] = d]
    /\ \/ /\ ~NameInUse(dev)
          /\ \/ seen' = [seen EXCEPT ![dev] = fs[d]] /\ NoFault
             \/ seen' = [seen EXCEPT ![dev] = Unprobed] /\ Fault("lag")
          /\ UNCHANGED exposed
       \/ /\ NameInUse(dev)
          /\ seen' = [seen EXCEPT ![dev] = Unprobed] /\ Fault("swap")
          /\ exposed' = exposed \cup {d}
    /\ UNCHANGED <<fs, mounts, process, node, minted, precious, published>>

\* udev processes an event nobody waited for.
UdevCatchUp(dev) ==
    /\ Present(dev)
    /\ seen[dev] # fs[slot[dev]]
    /\ seen' = [seen EXCEPT ![dev] = fs[slot[dev]]]
    /\ NoFault
    /\ UNCHANGED <<slot, fs, mounts, process, node, history>>

\* The machine reboots: no mounts, and the same disks under other names.
Reboot ==
    /\ Fault("reboot")
    /\ ProcessStops
    /\ slot' \in {s \in Placements :
                     \A d \in Disks : (\E dev \in Devs : s[dev] = d) <=> Plugged(d)}
    /\ seen' = Observed(slot', fs)
    /\ mounts' = {}
    /\ published' = FALSE
    /\ UNCHANGED <<fs, node, minted, precious, exposed>>

\* The Node object is deleted and the kubelet registers it again.
NodeRecreated ==
    /\ Fault("recreate")
    /\ labels' = {}
    /\ annotation' = EmptyMap
    /\ UNCHANGED <<machine, process, history>>

-----------------------------------------------------------------------------

ToMountEntries == [dev : Devs, uuid : UUIDs]

\* What the process does of itself.
ScanStep ==
    \/ ScanStart \/ InitFails
    \/ \E dev \in Devs : FormatTarget(dev) \/ FormatFails(dev)
    \/ ScanUnmounted \/ ScanUnmountedFails
    \/ \E entry \in toMount :
          ResolveFails(entry) \/ \E dev \in Devs : ResolveUUID(entry, dev)
    \/ PassRootGuard \/ RefuseRootDisk
    \/ CheckDevice \/ RefuseDevice
    \/ AttachDevice \/ AttachFails
    \/ ScanMounted \/ ScanMountedFails
    \/ \E m \in entries : LookupUUID(m)
    \/ RememberUUIDs
    \/ PatchNode \/ PatchFails
    \/ Restart

Environment ==
    \/ Crash
    \/ \E dev \in Devs : Unplug(dev) \/ UdevCatchUp(dev)
    \/ \E d \in Disks, dev \in Devs : Plug(d, dev)
    \/ Reboot
    \/ NodeRecreated

Next == ScanStep \/ Environment

Spec == Init /\ [][Next]_vars

\* The ticker fires, no call of scan() hangs, the DaemonSet restarts the pod
\* and udev works off its queue.  Nothing is assumed of faults or of plugging.
Fairness ==
    /\ WF_vars(ScanStep)
    /\ \A dev \in Devs : WF_vars(UdevCatchUp(dev))

FairSpec == Spec /\ Fairness

-----------------------------------------------------------------------------
(***************************************************************************)
(* Properties.                                                             *)
(***************************************************************************)

Mounts == [target : UUIDs, dev : Devs, disk : Disks, uuid : UUIDs]

DiskMaps == [UUIDs -> UUIDs \cup {NoUUID}]

Jobs == [uuid : UUIDs, dev : Devs] \cup {NoJob}

\* Every variable has its type, and the scanner works on a device exactly in
\* the steps of Mount that follow ResolveUUID.
TypeOK ==
    /\ slot \in [Devs -> Disks \cup {NoDisk}]
    /\ fs \in [Disks -> Contents]
    /\ seen \in [Devs -> Contents \cup {Unprobed}]
    /\ mounts \subseteq Mounts
    /\ pc \in {"idle", "format", "mounting", "guard", "check", "attach",
               "lookup", "patch", "down"}
    /\ toFormat \subseteq Devs
    /\ toMount \subseteq ToMountEntries
    /\ job \in Jobs
    /\ pc \in {"guard", "check", "attach"} <=> job # NoJob
    /\ entries \subseteq Mounts
    /\ diskMap \in DiskMaps
    /\ prevUUIDs \subseteq UUIDs
    /\ labels \subseteq UUIDs
    /\ annotation \in DiskMaps
    /\ minted \subseteq UUIDs
    /\ precious \subseteq Contents
    /\ exposed \subseteq Disks
    /\ published \in BOOLEAN
    /\ faults \in 0..MaxFaults

\* A filesystem that was there before the scanner, or that has ever been
\* mounted for a pod, is overwritten only on a disk that was exposed to one of
\* the two races the code does not close: Init listed it before udev had looked
\* at it, or it got a kernel name the scanner was using.  Nothing else costs
\* data: neither what happens to other disks nor a settle that fails after
\* mkfs and leaves lsblk reporting a disk as raw (format_provider.go only logs
\* that), and only the disk that was exposed is lost.
NoDataLoss ==
    [][\A d \in Disks : fs[d] \in precious /\ d \notin exposed => fs'[d] = fs[d]]_vars

\* Only filesystems with the agent's label are ever mounted, although the
\* label is read before the mount, but for a disk that took over a kernel name
\* in use in between; and none of the disk that hosts "/", whatever happens to
\* names, unless the guard could not tell which disk that is.
OnlyManagedMounts ==
    \A m \in mounts :
        /\ m.disk \notin exposed => fs[m.disk].kind = "ours"
        /\ RootVisible /\ "read" \notin FaultKinds => m.disk \notin RootParts

\* A directory has one mount.  A disk is mounted once, at the directory named
\* by its UUID, through re-plugs, crashes and reboots (Mount resolves, checks,
\* probes the mount point and mounts in separate steps), unless it was exposed:
\* one that took over a name is mounted at another disk's directory, and one
\* that was mistaken for raw is mounted again under its new UUID.
MountedAtOwnPath ==
    \A m, n \in mounts :
        /\ m.target = n.target => m = n
        /\ m.disk \notin exposed => m.target = m.uuid /\ (m.disk = n.disk => m = n)

\* Once published, the directory the disk-map annotation gives for a UUID has
\* the filesystem with that UUID mounted on it, never another disk: entries
\* and UUIDs are read at different times from different sources (ScanMounted).
MapTruthful ==
    published =>
        \A u \in Keys(annotation) :
            \E m \in mounts : m.target = annotation[u] /\ m.uuid = u

\* Every disk in the annotation has its label: the webhook, which selects by
\* label, finds whatever the provisioner, which reads the annotation, offers.
LabelsCoverMap == Keys(annotation) \subseteq labels

\* The scanner implements the promise of NodePublication.
Publication == INSTANCE NodePublication
    WITH held <- {<<m.uuid, m.target>> : m \in mounts}

PublicationSpec == Publication!Spec

\* A disk the scanner is to manage: large enough, ours or raw.
Manageable(d) ==
    /\ RawSize[d] >= MinSize
    /\ d \notin RootParts
    /\ fs[d].kind \in {"none", "ours"}

Live(m) == slot[m.dev] = m.disk

\* The disk is mounted, and published where it is mounted.
Served(d) ==
    \E m \in mounts :
        /\ m.disk = d /\ Live(m)
        /\ annotation[m.uuid] = m.target
        /\ m.uuid \in labels

\* A dead mount occupies the directory of the disk.
Stranded(d) == \E m \in mounts : m.target = fs[d].uuid /\ ~Live(m)

\* The disk is raw, and mkfs always fails on a raw disk that comes before it.
Starved(d) ==
    \E i, j \in Devs :
        /\ slot[i] \in Unformattable /\ slot[j] = d /\ i <= j
        /\ fs[slot[i]] = Blank /\ fs[d] = Blank

\* Once faults cease, every manageable disk that is plugged in ends up
\* formatted, mounted, labelled and in the annotation, and stays so (the whole
\* of scan()), unless a dead mount is in its way or a disk that cannot be
\* formatted is: a disk on which mkfs always fails ends each Init, but what is
\* done already or comes first is served.
EventuallyServed ==
    <>[](\A d \in Disks :
            Plugged(d) /\ Manageable(d) => Served(d) \/ Stranded(d) \/ Starved(d))

\* Once faults cease, the annotation lists live mounts only: what was pulled
\* out leaves it (ScanMounted, patchNode).
EventuallyOnlyLive ==
    <>[](\A u \in Keys(annotation) :
            \E m \in mounts : Live(m) /\ m.uuid = u /\ m.target = annotation[u])

(***************************************************************************)
(* Claims of the documentation and of comments that the code does not keep.*)
(***************************************************************************)

\* "Skip if already has filesystem or UUID" (initializer.go:55): mkfs is only
\* ever run on a disk that carries nothing.
FormatsOnlyRawDisks == [][\A d \in Disks : fs[d] # Blank => fs'[d] = fs[d]]_vars

\* "Removes labels for disks that are no longer present" (scanner.go:166).
StaleLabelsRemoved == [][annotation' # annotation => labels' = Keys(annotation')]_vars

\* "Label ... for each mounted disk" (docs/architecture.md:36).
MountedDisksLabelled == <>[](\A m \in mounts : Live(m) => m.uuid \in labels)
=============================================================================
