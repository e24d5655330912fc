----------------------------- MODULE DeviceTree -----------------------------
(***************************************************************************)
(* Disks, partitions and what is stacked on them, as lsblk prints them,    *)
(* and the decisions of cmd-drivers that depend on the shape of the tree:  *)
(* which devices Init formats, which ScanUnmounted lists, which device a   *)
(* UUID stands for, and which devices Mount refuses.                       *)
(*                                                                         *)
(* Administrators partition, encrypt, assemble, format and mount devices   *)
(* as they like.  lsblk prints an array under each of its members, so the  *)
(* "tree" is an acyclic graph that is walked as a tree.  One call sees one *)
(* state of the machine: NodeScanner has the races within a scan.          *)
(***************************************************************************)
EXTENDS Naturals, Sequences, FiniteSets, SequencesExt

CONSTANTS
    Names,          \* names of block devices
    NoName,         \* no device
    Type,           \* lsblk TYPE, by name
    Disks,          \* the top-level devices, in lsblk order
    PartsOf,        \* the partitions a disk is given when it is partitioned
    Small,          \* devices below --min-size
    RootDevice      \* may "/" be on the device?

ASSUME NamesAssumption == NoName \notin Names
ASSUME TypeAssumption == Type \in [Names -> {"disk", "part", "loop", "raid1", "crypt"}]
ASSUME DisksAssumption ==
    /\ Disks \in Seq(Names)
    /\ \A i, j \in DOMAIN Disks : Disks[i] = Disks[j] => i = j
    /\ \A i \in DOMAIN Disks : Type[Disks[i]] \in {"disk", "loop"}
ASSUME PartsAssumption ==
    /\ PartsOf \in [Names -> Seq(Names)]
    /\ \A d, e \in Names : \A i \in DOMAIN PartsOf[d], j \in DOMAIN PartsOf[e] :
          /\ Type[PartsOf[d][i]] = "part"
          /\ PartsOf[d][i] = PartsOf[e][j] => d = e /\ i = j

VARIABLES
    kids,       \* by name: the devices on top of it
    content,    \* by name: what blkid finds at its start
    mounted,    \* by name: where it is mounted
    visible     \* is "/" of the machine in mountinfo?  (it is not in a container)

vars == <<kids, content, mounted, visible>>

(***************************************************************************)
(* Devices.                                                                *)
(***************************************************************************)

None == <<"none">>
Root == <<"/">>

FsUUID(n) == <<"fs", n>>
PartUUID(n) == <<"part", n>>
ArrayUUID(n) == <<"array", n>>

FSType(n) == CASE content[n] = "blank" -> ""
               [] content[n] \in {"ours", "ext4"} -> "ext4"
               [] OTHER -> content[n]

\* The columns UUID and PARTUUID.  All members of an array have its UUID.
UUIDColumn(n) == CASE content[n] = "blank" -> None
                   [] content[n] = "member" -> ArrayUUID(kids[n][1])
                   [] OTHER -> FsUUID(n)
PartUUIDColumn(n) == IF Type[n] = "part" THEN PartUUID(n) ELSE None

\* The column MOUNTPOINT, which lsblk takes from mountinfo.
MountpointColumn(n) == IF visible \/ mounted[n] # Root THEN mounted[n] ELSE None

Init ==
    /\ kids = [n \in Names |-> <<>>]
    /\ content = [n \in Names |-> "blank"]
    /\ mounted = [n \in Names |-> None]
    /\ visible \in BOOLEAN

-----------------------------------------------------------------------------
(***************************************************************************)
(* lsblk.go                                                                *)
(***************************************************************************)

\* The elements of s that are in S, in their order.
Among(s, S) == FlattenSeq([i \in DOMAIN s |-> IF s[i] \in S THEN <<s[i]>> ELSE <<>>])

\* A device and all below it, depth first.
Subtree ==
    LET sub[n \in Names] == <<n>> \o FlattenSeq([i \in DOMAIN kids[n] |-> sub[kids[n][i]]])
    IN  sub

FlattenDevices(roots) ==
    LET sub == Subtree IN FlattenSeq([i \in DOMAIN roots |-> sub[roots[i]]])

All == FlattenDevices(Disks)

Below(n) == ToSet(Subtree[n])

\* What a FilterFunc answers, by device.
Answer(skip, stop) == [skip |-> skip, stop |-> stop]

TypeFilter(types) == [n \in Names |-> Answer(Type[n] \notin types, FALSE)]
NameFilter(name) == [n \in Names |-> Answer(n # name, FALSE)]
FSTypeFilter(types) == [n \in Names |-> Answer(FSType(n) \notin types \cup {""}, FALSE)]
MountpointEmpty == [n \in Names |-> Answer(MountpointColumn(n) # None, FALSE)]

\* What the first of the filters answers, if there is one.
FirstAnswer(filters, n, otherwise) == IF filters = <<>> THEN otherwise ELSE filters[1][n]

\* And: the first filter that skips or stops answers.
And(filters) ==
    [n \in Names |->
        FirstAnswer(Among(filters, {f \in ToSet(filters) : f[n].skip \/ f[n].stop}), n,
                    Answer(FALSE, FALSE))]

\* Or: the first filter that stops answers; otherwise one that passes is enough.
Or(filters) ==
    [n \in Names |->
        FirstAnswer(Among(filters, {f \in ToSet(filters) : f[n].stop}), n,
                    Answer(\A i \in DOMAIN filters : filters[i][n].skip, FALSE))]

Not(filter) == [n \in Names |-> Answer(~filter[n].skip, filter[n].stop)]

\* A mutant: a device that is skipped takes its children along.
FilterDeviceRecursiveSkipping(filter) ==
    LET f[n \in Names] ==
            IF filter[n].skip THEN <<>>
            ELSE <<n>> \o (IF filter[n].stop THEN <<>>
                           ELSE FlattenSeq([i \in DOMAIN kids[n] |-> f[kids[n][i]]]))
    IN  f

\* filterDeviceRecursive: "stop" ends the descent, not the walk.
FilterDeviceRecursive(filter) ==
    LET f[n \in Names] ==
            (IF filter[n].skip THEN <<>> ELSE <<n>>) \o
            (IF filter[n].stop THEN <<>>
             ELSE FlattenSeq([i \in DOMAIN kids[n] |-> f[kids[n][i]]]))
    IN  f

GetBlockDevices(filter) ==
    LET kept == FilterDeviceRecursive(filter)
    IN  FlattenSeq([i \in DOMAIN Disks |-> kept[Disks[i]]])

GetBlockDevice(name) ==
    LET found == GetBlockDevices([n \in Names |-> Answer(n # name, n = name)])
    IN  IF found = <<>> THEN NoName ELSE found[1]

\* The filesystem's, or the partition's.
UUIDOrPartUUID(n) == IF UUIDColumn(n) # None THEN UUIDColumn(n) ELSE PartUUIDColumn(n)

\* A mutant: the PARTUUID comes first.
GetUUIDPartFirst(name) ==
    LET n == GetBlockDevice(name) IN
    IF n = NoName THEN None
    ELSE IF PartUUIDColumn(n) # None THEN PartUUIDColumn(n) ELSE UUIDColumn(n)

\* Of a source that is a device.  The search that follows when the device is
\* not found walks the same tree once more.
GetUUID(name) ==
    LET n == GetBlockDevice(name) IN IF n = NoName THEN None ELSE UUIDOrPartUUID(n)

\* A mutant: the partition that holds "/" instead of its disk.
RootPartitionDescendants(source) == IF source \in ToSet(All) THEN Below(source) ELSE {}

\* All names on the first top-level device with the source of "/" below it.
FindRootDiskDescendants(source) ==
    LET hosts == Among(Disks, {d \in ToSet(Disks) : source \in Below(d)})
    IN  IF hosts = <<>> THEN {} ELSE Below(hosts[1])

-----------------------------------------------------------------------------
(***************************************************************************)
(* Who calls lsblk.go.                                                     *)
(***************************************************************************)

\* A mutant: what is on top of the device is not looked at.
InitTargetsWithChildren ==
    Among(Disks, {n \in Names :
        UUIDColumn(n) = None /\ MountpointColumn(n) = None /\ n \notin Small})

\* diskInitializer.Init: top-level devices with nothing on them.
InitTargets ==
    Among(Disks, {n \in Names :
        /\ kids[n] = <<>>
        /\ FSType(n) = "" /\ UUIDColumn(n) = None
        /\ MountpointColumn(n) = None
        /\ n \notin Small})

\* A mutant: arrays and other stacked devices are listed too.
UnmountedFilterAnyType == And(<<MountpointEmpty, FSTypeFilter({"ext4"})>>)

UnmountedFilter ==
    And(<<MountpointEmpty, FSTypeFilter({"ext4"}), TypeFilter({"disk", "part", "loop"})>>)

\* scanner.ScanUnmounted: <<device, UUID>>, None for "N/A".
ScanUnmounted ==
    LET kept == Among(GetBlockDevices(UnmountedFilter),
                      {n \in Names : ~(Type[n] = "disk" /\ kids[n] # <<>>) /\ n \notin Small})
    IN  [i \in DOMAIN kept |-> <<kept[i], UUIDOrPartUUID(kept[i])>>]

\* scanner.ScanMounted, of the mounts below the mount base.
ScanMounted ==
    {<<n, GetUUID(n), "mounted">> : n \in {m \in Names : mounted[m] \notin {None, Root}}}

\* scanner.ScanAll, in any order.
ScanAll ==
    LET listed == ScanUnmounted
    IN  ScanMounted \cup {<<listed[i][1], listed[i][2], "unmounted">> : i \in DOMAIN listed}

\* ResolveUUID without the udev symlink: the first device that matches.
ResolveUUID(uuid) ==
    LET found == Among(All, {n \in Names : uuid \in {UUIDColumn(n), PartUUIDColumn(n)}})
    IN  IF found = <<>> THEN NoName ELSE found[1]

RootSource == IF visible /\ \E n \in Names : mounted[n] = Root
              THEN CHOOSE n \in Names : mounted[n] = Root ELSE NoName

RefusedAsRoot(n) == n \in FindRootDiskDescendants(RootSource)

\* A mutant: the label of the device is not compared.
HasOurLabelAny(n) == GetBlockDevice(n) # NoName

HasOurLabel(n) == GetBlockDevice(n) # NoName /\ content[n] = "ours"

-----------------------------------------------------------------------------
(***************************************************************************)
(* Administrators.                                                         *)
(***************************************************************************)

\* A device that is there and on which nothing is.
Free(n) ==
    kids[n] = <<>> /\ content[n] = "blank" /\ mounted[n] = None /\ n \in ToSet(All)

Partition(d) ==
    /\ Type[d] = "disk" /\ PartsOf[d] # <<>> /\ Free(d)
    /\ kids' = [kids EXCEPT ![d] = PartsOf[d]]
    /\ UNCHANGED <<content, mounted, visible>>

\* An array on one or two devices, which become members of it.
Assemble(md, members) ==
    /\ Type[md] = "raid1" /\ md \notin ToSet(All)
    /\ \A n \in members : Type[n] \in {"disk", "part"} /\ Free(n)
    /\ kids' = [n \in Names |-> IF n \in members THEN <<md>> ELSE kids[n]]
    /\ content' = [n \in Names |-> IF n \in members THEN "member" ELSE content[n]]
    /\ UNCHANGED <<mounted, visible>>

\* Encryption without a header: nothing shows on the device below.
Encrypt(c, n) ==
    /\ Type[c] = "crypt" /\ c \notin ToSet(All)
    /\ Free(n)
    /\ kids' = [kids EXCEPT ![n] = <<c>>]
    /\ UNCHANGED <<content, mounted, visible>>

Format(n, kind) ==
    /\ Free(n)
    /\ content' = [content EXCEPT ![n] = kind]
    /\ UNCHANGED <<kids, mounted, visible>>

\* The system has "/" there, on a filesystem that does not have our label.
MountRoot(n) ==
    /\ RootDevice[n]
    /\ content[n] \in {"ext4", "xfs"} /\ mounted[n] = None
    /\ n \in ToSet(All)
    /\ \A m \in Names : mounted[m] # Root
    /\ mounted' = [mounted EXCEPT ![n] = Root]
    /\ UNCHANGED <<kids, content, visible>>

-----------------------------------------------------------------------------
(***************************************************************************)
(* The agent.                                                              *)
(***************************************************************************)

\* Init formats all it has found.
FormatTargets ==
    /\ InitTargets # <<>>
    /\ LET targets == ToSet(InitTargets) IN
          content' = [n \in Names |-> IF n \in targets THEN "ours" ELSE content[n]]
    /\ UNCHANGED <<kids, mounted, visible>>

\* Mount, for a device that ScanUnmounted lists, by its UUID.
MountListed(i) ==
    /\ LET uuid == ScanUnmounted[i][2]
           n == ResolveUUID(uuid)
       IN  /\ uuid # None /\ n # NoName
           /\ ~RefusedAsRoot(n) /\ HasOurLabel(n)
           /\ \A m \in Names : mounted[m] # uuid
           /\ mounted' = [mounted EXCEPT ![n] = uuid]
    /\ UNCHANGED <<kids, content, visible>>

\* Unmount, by UUID.
Unmount(n) ==
    /\ mounted[n] \notin {None, Root}
    /\ mounted' = [mounted EXCEPT ![n] = None]
    /\ UNCHANGED <<kids, content, visible>>

Next ==
    \/ \E d \in Names : Partition(d)
    \/ \E md, m, n \in Names : Assemble(md, {m, n})
    \/ \E c, n \in Names : Encrypt(c, n)
    \/ \E n \in Names, kind \in {"ours", "ext4", "xfs"} : Format(n, kind)
    \/ \E n \in Names : MountRoot(n)
    \/ FormatTargets
    \/ \E i \in 1..Len(ScanUnmounted) : MountListed(i)
    \/ \E n \in Names : Unmount(n)

Spec == Init /\ [][Next]_vars

-----------------------------------------------------------------------------
(***************************************************************************)
(* Properties.                                                             *)
(***************************************************************************)

\* Every variable has its type; a mount is at the directory of a filesystem
\* UUID, never of a PARTUUID or of an array.
TypeOK ==
    /\ kids \in [Names -> Seq(Names)]
    /\ content \in [Names -> {"blank", "ours", "ext4", "xfs", "member"}]
    /\ mounted \in [Names -> {None, Root} \cup {FsUUID(n) : n \in Names}]
    /\ visible \in BOOLEAN

\* The devices that share a disk with n.
DisksOf(n) == {d \in ToSet(Disks) : n \in Below(d)}

InUse(n) == \E m \in Below(n) : mounted[m] # None

\* A disk that Init formats carries nothing, itself or in anything stacked on
\* it, mounted or not: also when nothing on the disk itself shows it.
FormatsOnlyFree ==
    \A n \in ToSet(InitTargets) : \A m \in Below(n) : content[m] = "blank" /\ mounted[m] = None

\* Each device is listed once, with a UUID that leads Mount back to it,
\* although listing takes the UUID or else the PARTUUID, resolving the first
\* device with either, and members of an array share theirs.
ListedIsResolved ==
    LET listed == ScanUnmounted IN
    \A i, j \in DOMAIN listed :
        /\ listed[i][2] # None => ResolveUUID(listed[i][2]) = listed[i][1]
        /\ listed[i][1] = listed[j][1] => i = j

\* What the agent has mounted is reported with the UUID its directory is named
\* after, and no device is reported both as mounted and as unmounted: Mount,
\* ScanMounted and ScanUnmounted find UUIDs each in its own way.
ScannedUnderItsUUID ==
    LET all == ScanAll IN
    /\ \A n \in Names :
          mounted[n] \notin {None, Root} => <<n, mounted[n], "mounted">> \in all
    /\ \A a, b \in all : a[1] = b[1] => a = b

\* The agent mounts only filesystems with its label, with nothing in use on
\* top, and if it can see where "/" is, nothing that shares a disk with "/" -
\* provided "/" is on one disk.
MountsOnlyManaged ==
    [][\A n \in Names : mounted[n] = None /\ mounted'[n] \notin {None, Root} =>
          /\ content[n] = "ours" /\ ~InUse(n)
          /\ \A r \in Names :
                visible /\ mounted[r] = Root /\ Cardinality(DisksOf(r)) = 1
                   => DisksOf(n) \cap DisksOf(r) = {}]_vars

\* By three of the agent's filters and by And, Or and Not of two of them,
\* GetBlockDevices selects from the flat list what passes, whatever is skipped
\* above a device; And and Not relate as they should; and a search by name,
\* which stops where it has found the device, agrees with the filter by name.
FiltersSelect ==
    LET fs == FSTypeFilter({"ext4"})  ty == TypeFilter({"disk", "raid1"})
        all == All
        Passes(f) == Among(all, {n \in Names : ~f[n].skip})
    IN  /\ \A f \in {MountpointEmpty, fs, ty, And(<<fs, ty>>), Or(<<fs, ty>>), Not(fs)} :
              GetBlockDevices(f) = Passes(f)
        /\ Passes(And(<<fs, ty>>)) = Among(Passes(fs), {n \in Names : ~ty[n].skip})
        /\ Not(And(<<fs, ty>>)) = Or(<<Not(fs), Not(ty)>>)
        /\ \A n \in Names :
              /\ GetBlockDevice(n) = IF n \in ToSet(all) THEN n ELSE NoName
              /\ ToSet(GetBlockDevices(NameFilter(n))) = ToSet(all) \cap {n}
=============================================================================
