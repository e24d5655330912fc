------------------------ MODULE NodeScannerDataProofs ------------------------
(***************************************************************************)
(* Proofs that the node scanner overwrites no data but on disks that were  *)
(* exposed to one of the two races the code does not close: for any number *)
(* of disks, names, UUIDs and faults of every kind.                        *)
(***************************************************************************)
EXTENDS NodeScannerProofs

\* The UUIDs of all that is worth keeping have been used up.
PreciousMinted ==
    /\ \A d \in Disks : fs[d].uuid \in minted \cup {NoUUID}
    /\ \A c \in precious : c # Blank /\ c.uuid \in minted \cup {NoUUID}

\* A disk that looks raw to lsblk carries nothing worth keeping.
RawIsExpendable ==
    \A dev \in Devs : Present(dev) /\ seen[dev] = Blank => fs[slot[dev]] \notin precious

\* Nothing Init has still to format carries anything worth keeping, unless it
\* was exposed.
TargetsExpendable ==
    pc = "format" =>
        \A dev \in toFormat :
            Present(dev) => slot[dev] \in exposed \/ fs[slot[dev]] \notin precious

\* Mount works on a disk that does not look raw, or is.
JobNotRaw ==
    pc \in {"guard", "check", "attach"} /\ Present(job.dev) =>
        seen[job.dev] # Blank \/ fs[slot[job.dev]] = Blank

\* What keeps data, whatever fails and whatever happens to names.
KeepInv ==
    /\ TypeOK
    /\ Injective(slot)
    /\ DistinctUUIDs(fs)
    /\ PreciousMinted
    /\ RawIsExpendable
    /\ TargetsExpendable
    /\ JobNotRaw

-----------------------------------------------------------------------------

LEMMA InitKeepInv == Init => KeepInv
<1> SUFFICES ASSUME Init PROVE KeepInv
  OBVIOUS
<1>1. TypeOK /\ DistinctUUIDs(fs) /\ Injective(slot)
  BY InitTypeOK, InitialFsAssumption DEF Init, Placements
<1>2. PreciousMinted
  BY DEF Init, PreciousMinted
<1>3. \A dev \in Devs : Present(dev) => slot[dev] \in Disks /\ seen[dev] = fs[slot[dev]]
  BY <1>1 DEF Init, Observed, Present, TypeOK
<1>4. RawIsExpendable
  BY <1>2, <1>3 DEF RawIsExpendable, PreciousMinted
<1>5. TargetsExpendable /\ JobNotRaw
  BY DEF Init, TargetsExpendable, JobNotRaw
<1> QED
  BY <1>1, <1>2, <1>4, <1>5 DEF KeepInv

\* The steps that leave the machine and the history of contents alone.
LEMMA QuietStepKeepInv ==
    ASSUME KeepInv, TypeOK', UNCHANGED <<slot, fs, seen, minted, precious>>,
           exposed \subseteq exposed',
           pc' = "format" /\ pc # "format" =>
               \A dev \in toFormat' :
                   seen[dev] = Blank \/ fs[slot[dev]] = Blank \/ slot[dev] \in exposed',
           pc' = "format" /\ pc = "format" => toFormat' \subseteq toFormat,
           pc' \in {"guard", "check", "attach"} =>
               \/ pc \in {"guard", "check", "attach"} /\ job' = job
               \/ seen[job'.dev] # Blank
    PROVE  KeepInv'
<1>1. Injective(slot)' /\ DistinctUUIDs(fs)' /\ PreciousMinted'
  BY DEF KeepInv, Injective, DistinctUUIDs, PreciousMinted
<1>2. RawIsExpendable'
  BY DEF KeepInv, RawIsExpendable, Present
<1>3. TargetsExpendable'
  <2>1. CASE pc' = "format" /\ pc # "format"
    BY <2>1 DEF KeepInv, TypeOK, PreciousMinted, RawIsExpendable, TargetsExpendable, Present
  <2>2. CASE pc' = "format" /\ pc = "format"
    BY <2>2 DEF KeepInv, TargetsExpendable, Present
  <2> QED
    BY <2>1, <2>2 DEF TargetsExpendable
<1>4. JobNotRaw'
  BY DEF KeepInv, JobNotRaw, Present
<1> QED
  BY <1>1, <1>2, <1>3, <1>4 DEF KeepInv

\* mkfs makes a filesystem that has never been there, on a disk of its own.
LEMMA FormatKeepInv ==
    ASSUME KeepInv, TypeOK', NEW dev \in Devs, FormatTarget(dev)
    PROVE  KeepInv'
<1> DEFINE d == slot[dev]
<1>1. PICK u \in UUIDs \ minted :
         /\ minted' = minted \cup {u}
         /\ fs' = [fs EXCEPT ![d] = [uuid |-> u, kind |-> "ours"]]
         /\ \/ seen' = [seen EXCEPT ![dev] = [uuid |-> u, kind |-> "ours"]]
            \/ seen' = seen
  BY DEF FormatTarget
<1> DEFINE new == [uuid |-> u, kind |-> "ours"]
<1>2. TypeOK /\ Injective(slot) /\ d \in Disks
  BY DEF FormatTarget, Present, KeepInv, TypeOK
<1>3. UNCHANGED <<slot, precious, exposed>> /\ pc = "format" /\ pc' = "format"
      /\ toFormat' \subseteq toFormat
  BY DEF FormatTarget
<1>4. new # Blank /\ u # NoUUID /\ new \notin precious
  BY OursIsContent, UUIDsAssumption DEF KeepInv, PreciousMinted
<1>5. fs'[d] = new /\ \A e \in Disks : e # d => fs'[e] = fs[e]
  BY <1>1, <1>2 DEF TypeOK
<1>6. DistinctUUIDs(fs)'
  BY <1>1, <1>4, <1>5 DEF KeepInv, DistinctUUIDs, PreciousMinted
<1>7. PreciousMinted'
  BY <1>1, <1>3, <1>5 DEF KeepInv, PreciousMinted
<1>8. RawIsExpendable'
  <2> SUFFICES ASSUME NEW e \in Devs, slot[e] # NoDisk, seen'[e] = Blank
               PROVE  fs'[slot[e]] \notin precious
    BY <1>3 DEF RawIsExpendable, Present
  <2>1. slot[e] \in Disks
    BY <1>2 DEF TypeOK
  <2>2. CASE slot[e] = d
    BY <1>4, <1>5, <2>2
  <2>3. CASE slot[e] # d
    <3>1. seen'[e] = seen[e]
      BY <1>1, <1>2, <2>3 DEF TypeOK
    <3> QED
      BY <1>5, <2>1, <2>3, <3>1 DEF KeepInv, RawIsExpendable, Present
  <2> QED
    BY <2>2, <2>3
<1>9. TargetsExpendable'
  <2> SUFFICES ASSUME NEW e \in toFormat', slot[e] # NoDisk
               PROVE  slot[e] \in exposed \/ fs'[slot[e]] \notin precious
    BY <1>3 DEF TargetsExpendable, Present
  <2>1. e \in Devs /\ e \in toFormat /\ slot[e] \in Disks
    BY <1>2, <1>3 DEF TypeOK
  <2> QED
    BY <1>3, <1>4, <1>5, <2>1 DEF KeepInv, TargetsExpendable, Present
<1>10. JobNotRaw' /\ Injective(slot)'
  BY <1>2, <1>3 DEF JobNotRaw, Injective
<1> QED
  BY <1>6, <1>7, <1>8, <1>9, <1>10 DEF KeepInv

\* mount(8): the content that becomes precious is that of one disk only, and
\* that disk does not look raw.
LEMMA AttachKeepInv ==
    ASSUME KeepInv, TypeOK', AttachDevice
    PROVE  KeepInv'
<1> DEFINE d == slot[job.dev]
<1>1. UNCHANGED <<slot, fs, seen, minted>> /\ precious' = precious \cup {fs[d]}
      /\ pc = "attach" /\ pc' = "mounting"
  BY DEF AttachDevice, MountReturns
<1>2. TypeOK /\ Injective(slot) /\ job.dev \in Devs /\ d \in Disks /\ Present(job.dev)
  BY JobInProgress DEF AttachDevice, CanAttach, Present, KeepInv, TypeOK
<1>3. fs[d] # Blank /\ fs[d].uuid # NoUUID /\ fs[d].uuid \in minted
  <2>1. fs[d].uuid \in UUIDs /\ fs[d] \in FileSystems
    BY <1>2, MountableHasUUID DEF AttachDevice, CanAttach, TypeOK
  <2> QED
    BY <1>2, <2>1, UUIDsAssumption DEF KeepInv, PreciousMinted, Blank
<1>4. PreciousMinted'
  BY <1>1, <1>3 DEF KeepInv, PreciousMinted
<1>5. RawIsExpendable'
  <2> SUFFICES ASSUME NEW e \in Devs, slot[e] # NoDisk, seen[e] = Blank
               PROVE  fs[slot[e]] \notin precious \cup {fs[d]}
    BY <1>1 DEF RawIsExpendable, Present
  <2>1. slot[e] \in Disks /\ e # job.dev
    BY <1>1, <1>2, <1>3 DEF TypeOK, KeepInv, JobNotRaw
  <2>2. slot[e] # d
    BY <1>2, <2>1 DEF Injective
  <2>3. fs[slot[e]] # fs[d]
    BY <1>2, <1>3, <2>1, <2>2 DEF KeepInv, DistinctUUIDs
  <2> QED
    BY <2>3 DEF KeepInv, RawIsExpendable, Present
<1>6. Injective(slot)' /\ DistinctUUIDs(fs)'
  BY <1>1 DEF KeepInv, Injective, DistinctUUIDs
<1>7. TargetsExpendable' /\ JobNotRaw'
  BY <1>1 DEF TargetsExpendable, JobNotRaw
<1> QED
  BY <1>4, <1>5, <1>6, <1>7 DEF KeepInv

\* A disk comes or goes, or udev catches up with it.
LEMMA PlugKeepInv ==
    ASSUME KeepInv, TypeOK', NEW dev \in Devs,
           Unplug(dev) \/ (\E d \in Disks : Plug(d, dev)) \/ UdevCatchUp(dev)
    PROVE  KeepInv'
<1>1. UNCHANGED <<fs, pc, toFormat, job, minted, precious>> /\ exposed \subseteq exposed'
  BY DEF Unplug, Plug, UdevCatchUp, process, history
<1>2. TypeOK /\ Injective(slot)
  BY DEF KeepInv
<1>3. Injective(slot)'
  BY <1>2 DEF Unplug, Plug, UdevCatchUp, Injective, Plugged, TypeOK
<1>4. DistinctUUIDs(fs)' /\ PreciousMinted'
  BY <1>1 DEF KeepInv, DistinctUUIDs, PreciousMinted
<1>5. \A e \in Devs : e # dev => slot'[e] = slot[e] /\ seen'[e] = seen[e]
  BY <1>2 DEF Unplug, Plug, UdevCatchUp, TypeOK
<1>6. slot'[dev] # NoDisk =>
          slot'[dev] \in Disks /\ seen'[dev] \in {Unprobed, fs[slot'[dev]]}
  BY <1>2 DEF Unplug, Plug, UdevCatchUp, TypeOK
<1>7. \/ slot'[dev] = NoDisk \/ slot'[dev] = slot[dev]
      \/ ~NameInUse(dev) \/ slot'[dev] \in exposed'
  BY <1>2 DEF Unplug, Plug, UdevCatchUp, TypeOK
<1>8. RawIsExpendable'
  <2> SUFFICES ASSUME NEW e \in Devs, slot'[e] # NoDisk, seen'[e] = Blank
               PROVE  fs[slot'[e]] \notin precious
    BY <1>1 DEF RawIsExpendable, Present
  <2>1. CASE e = dev
    BY <1>6, <2>1 DEF KeepInv, PreciousMinted, Blank, Unprobed
  <2>2. CASE e # dev
    BY <1>5, <2>2 DEF KeepInv, RawIsExpendable, Present
  <2> QED
    BY <2>1, <2>2
<1>9. TargetsExpendable'
  <2> SUFFICES ASSUME pc = "format", NEW e \in toFormat, slot'[e] # NoDisk
               PROVE  slot'[e] \in exposed' \/ fs[slot'[e]] \notin precious
    BY <1>1 DEF TargetsExpendable, Present
  <2>1. slot'[e] = slot[e] \/ slot'[e] \in exposed'
    BY <1>2, <1>5, <1>7 DEF NameInUse, TypeOK
  <2> QED
    BY <1>1, <2>1 DEF KeepInv, TargetsExpendable, Present
<1>10. JobNotRaw'
  <2> SUFFICES ASSUME pc \in {"guard", "check", "attach"}, slot'[job.dev] # NoDisk
               PROVE  seen'[job.dev] # Blank \/ fs[slot'[job.dev]] = Blank
    BY <1>1 DEF JobNotRaw, Present
  <2>1. job.dev \in Devs
    BY <1>2, JobInProgress DEF TypeOK
  <2>2. CASE job.dev = dev
    BY <1>6, <2>2 DEF Blank, Unprobed
  <2>3. CASE job.dev # dev
    BY <1>5, <2>1, <2>3 DEF KeepInv, JobNotRaw, Present
  <2> QED
    BY <2>2, <2>3
<1> QED
  BY <1>3, <1>4, <1>8, <1>9, <1>10 DEF KeepInv

LEMMA RebootKeepInv ==
    ASSUME KeepInv, TypeOK', Reboot
    PROVE  KeepInv'
<1>1. UNCHANGED <<fs, minted, precious, exposed>> /\ pc' = "down"
      /\ seen' = Observed(slot', fs) /\ Injective(slot)'
  BY DEF Reboot, ProcessStops, Placements
<1>2. DistinctUUIDs(fs)' /\ PreciousMinted'
  BY <1>1 DEF KeepInv, DistinctUUIDs, PreciousMinted
<1>3. RawIsExpendable'
  BY <1>1, <1>2 DEF RawIsExpendable, PreciousMinted, Present, Observed
<1>4. TargetsExpendable' /\ JobNotRaw'
  BY <1>1 DEF TargetsExpendable, JobNotRaw
<1> QED
  BY <1>1, <1>2, <1>3, <1>4 DEF KeepInv

LEMMA NextKeepInv == KeepInv /\ [Next]_vars => KeepInv'
<1> SUFFICES ASSUME KeepInv, [Next]_vars PROVE KeepInv'
  OBVIOUS
<1>t. TypeOK /\ TypeOK'
  BY NextTypeOK DEF KeepInv
<1> USE DEF machine, history
<1>1. CASE ScanStart
  <2>1. \A dev \in toFormat' :
            seen[dev] = Blank \/ fs[slot[dev]] = Blank \/ slot[dev] \in exposed'
    BY <1>1 DEF ScanStart, Formattable, MistakenForRaw
  <2> QED
    BY <1>1, <1>t, <2>1, QuietStepKeepInv DEF ScanStart
<1>0. CASE InitFails
  BY <1>0, <1>t, QuietStepKeepInv DEF InitFails
<1>2. ASSUME NEW dev \in Devs, FormatTarget(dev) PROVE KeepInv'
  BY <1>2, <1>t, FormatKeepInv
<1>3. ASSUME NEW dev \in Devs, FormatFails(dev) PROVE KeepInv'
  BY <1>3, <1>t, QuietStepKeepInv DEF FormatFails
<1>4. CASE ScanUnmounted \/ ScanUnmountedFails
  BY <1>4, <1>t, QuietStepKeepInv DEF ScanUnmounted, ScanUnmountedFails
<1>5. ASSUME NEW entry \in toMount, ResolveFails(entry) PROVE KeepInv'
  BY <1>5, <1>t, QuietStepKeepInv DEF ResolveFails
<1>6. ASSUME NEW entry \in toMount, NEW dev \in Devs, ResolveUUID(entry, dev) PROVE KeepInv'
  <2>1. entry.uuid \in UUIDs
    BY <1>t DEF TypeOK, ToMountEntries
  <2>2. seen[job'.dev] # Blank
    BY <1>6, <2>1, UUIDsAssumption DEF ResolveUUID, Blank
  <2> QED
    BY <1>6, <1>t, <2>2, QuietStepKeepInv DEF ResolveUUID
<1>7. CASE PassRootGuard \/ RefuseRootDisk \/ CheckDevice \/ RefuseDevice \/ AttachFails
  BY <1>7, <1>t, QuietStepKeepInv
     DEF PassRootGuard, RefuseRootDisk, CheckDevice, RefuseDevice, AttachFails, MountReturns
<1>8. CASE AttachDevice
  BY <1>8, <1>t, AttachKeepInv
<1>9. CASE ScanMounted \/ ScanMountedFails \/ RememberUUIDs \/ PatchNode \/ PatchFails
           \/ Restart
  BY <1>9, <1>t, QuietStepKeepInv
     DEF ScanMounted, ScanMountedFails, RememberUUIDs, PatchNode, PatchFails, Restart
<1>10. ASSUME NEW m \in entries, LookupUUID(m) PROVE KeepInv'
  BY <1>10, <1>t, QuietStepKeepInv DEF LookupUUID
<1>11. CASE Crash \/ NodeRecreated
  BY <1>11, <1>t, QuietStepKeepInv DEF Crash, ProcessStops, NodeRecreated, process
<1>12. ASSUME NEW dev \in Devs,
              Unplug(dev) \/ UdevCatchUp(dev) \/ \E d \in Disks : Plug(d, dev)
       PROVE  KeepInv'
  BY <1>12, <1>t, PlugKeepInv
<1>13. CASE Reboot
  BY <1>13, <1>t, RebootKeepInv
<1>14. CASE UNCHANGED vars
  BY <1>14, <1>t, QuietStepKeepInv DEF vars, process
<1> QED
  BY <1>0, <1>1, <1>2, <1>3, <1>4, <1>5, <1>6, <1>7, <1>8, <1>9, <1>10, <1>11,
     <1>12, <1>13, <1>14 DEF Next, ScanStep, Environment

\* mkfs runs on a disk with a precious content only if that disk was exposed.
LEMMA StepKeepsPrecious ==
    ASSUME KeepInv, [Next]_vars
    PROVE  \A d \in Disks : fs[d] \in precious /\ d \notin exposed => fs'[d] = fs[d]
<1>1. CASE UNCHANGED fs
  BY <1>1
<1>2. ASSUME NEW dev \in Devs, FormatTarget(dev)
      PROVE  \A d \in Disks : fs[d] \in precious /\ d \notin exposed => fs'[d] = fs[d]
  <2>1. slot[dev] \in exposed \/ fs[slot[dev]] \notin precious
    BY <1>2 DEF FormatTarget, IsFirst, KeepInv, TargetsExpendable
  <2>2. \A d \in Disks : d # slot[dev] => fs'[d] = fs[d]
    BY <1>2 DEF FormatTarget, KeepInv, TypeOK
  <2> QED
    BY <2>1, <2>2
<1> QED
  BY <1>1, <1>2, OnlyFormatWrites

\* No filesystem that was there before the scanner or that has ever been
\* mounted is overwritten, whatever fails, but on a disk that Init listed
\* before udev had looked at it or that took over a kernel name in use.
THEOREM NoDataIsLost == Spec => NoDataLoss
<1>1. KeepInv /\ [Next]_vars => KeepInv'
  BY NextKeepInv
<1>2. KeepInv /\ [Next]_vars =>
        [\A d \in Disks : fs[d] \in precious /\ d \notin exposed => fs'[d] = fs[d]]_vars
  BY StepKeepsPrecious
<1> QED
  BY <1>1, <1>2, InitKeepInv, PTL DEF Spec, NoDataLoss
=============================================================================
