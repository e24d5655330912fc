# Verification of the local-disk external provider

TLA+ modules, TLC configurations and TLAPS proofs for the programs of this
repository: a node scanner that formats, mounts and publishes local disks, an
external provisioner that turns a published disk into a PersistentVolume, and
an admission webhook that pins a pod to the node with its disk. Paths below
are relative to `src/`.

## 1. The system

| Component | Where | State it keeps | Operations |
|---|---|---|---|
| node scanner loop | `node-scanner/internal/scanner/scanner.go`, `node-scanner/cmd/main.go` | `prevUUIDs` (in memory); locals of one `scan()` | `Run` (a first scan, then one per tick), `scan`, `patchNode` |
| disk initializer | `cmd-drivers/services/initializer.go`, `providers/format_provider.go` | none; the list of names of one call | `Init`: enumerate raw disks, then `mkfs` and `udevadm settle` one by one |
| device scanner | `cmd-drivers/services/scanner.go`, `providers/mountinfo_provider.go`, `providers/statfs_provider.go` | none | `ScanMounted`, `ScanUnmounted`, `ScanAll` |
| device mounter | `cmd-drivers/services/mounter.go`, `providers/device_resolver.go`, `providers/k8s_mount_provider.go` | none; the kernel mount table | `Mount` (resolve UUID, root-disk guard, label check, mkdir, probe, mount), `Unmount` |
| lsblk reader | `cmd-drivers/fsutils/lsblk.go` | none | `GetBlockDevices` and its filters, `GetBlockDevice`, `GetUUID`, `FindRootDiskDescendants` |
| filesystem types and labels | `cmd-drivers/fsutils/fstype.go` | none | string validation |
| disk map publication | `commonlib/`, `patchNode` | Node labels `agent.cubbit.io/has-uuid-<UUID>`, Node annotation `agent.cubbit.io/disk-uuid-map` | one strategic merge patch per scan |
| provisioner | `provisioner/` | none of its own; PVs and PVCs through the controller library | `Provision`, `Delete` |
| admission webhook | `webhook/internal/webhook/webhook.go` | informer caches of PVCs and Nodes | `mutate`: allow, deny, or pin the pod |
| webhook TLS bootstrap | `webhook/internal/webhook/certs.go`, `webhook/cmd/main.go` | Secret `local-disk-webhook-tls`, the MutatingWebhookConfiguration, the certificate a replica serves | `EnsureTLSSecret`, `PatchWebhookCABundle`, start of the server |
| manifests | `deploy/` | static | replica counts, restart policy, `failurePolicy: Ignore`, StorageClass |
| logger, models, tests | `cmd-drivers/logger`, `cmd-drivers/models`, `tests/`, `cmd-drivers/tests` | none | logging, records, fixtures |

**How they interact.** The scanner calls initializer, device scanner and
mounter in sequence, in one process, with nothing held between the calls: what
they share is the machine, read again each time through `lsblk`, the udev
`by-uuid` symlinks and `/proc/self/mountinfo`. The scanner speaks to the
cluster through the Node object only. The webhook reads the label through an
informer cache and the provisioner reads the annotation live, so a pod goes
through two views of the same Node, taken at different times. Replicas of the
webhook share a Secret and the webhook configuration.

**What is hard in it.**

* A read of the machine is stale as soon as it returns: disks are pulled out
  and put back between the enumeration and the `mkfs`, between resolving a
  UUID, checking the label and mounting, between reading the mount table and
  asking for each UUID. Kernel names are reused.
* lsblk knows of a filesystem what udev has found out, and udev may not have
  looked yet. The scanner waits for it after `mkfs` only.
* A filesystem that is pulled out leaves a dead mount, which is still a mount
  point and still keeps its kernel name.
* Any single step may fail, and each failure is handled differently: one ends
  `Init`, one ends the scan, one is logged and ignored, one lets the root-disk
  guard pass.
* The pod may crash anywhere and forgets `prevUUIDs`; the machine may reboot,
  which undoes all mounts and none of the labels; the Node object may be
  deleted and registered again.
* Webhook and provisioner act on a publication that is out of date.
* The tree of devices has many shapes, and each caller of lsblk reads it in its
  own way: by top-level device, by filter, by name, by UUID or PARTUUID.
* Two replicas bootstrap at once.

**What makes each component correct.**

* initializer: nothing anyone may miss is overwritten, but for the disks of the
  two races the code leaves open (section 6); every raw disk is formatted in
  the end.
* mounter: with the same exception, a filesystem is mounted once, at the
  directory of its UUID, and only if it carries the agent's label and is not
  on the root disk.
* device scanner and publication: what is published is mounted where it says,
  every published disk has its label, and in the end everything that can be
  served is published and nothing else.
* webhook and provisioner: a pod only runs where its disk is, on the directory
  of its disk; two claims never share one; a rejected pod gets in once the disk
  is there.
* TLS bootstrap: all replicas end with one certificate; the API server trusts
  the one that is served; pods are not rejected for want of a webhook.

## 2. Modules

### `NodePublication`: the abstract promise

Four variables: `held` (pairs of filesystem and directory mounted since the
last boot), `labels`, `annotation`, `published`. A node may take a new mount
(`Hold`), write a map all of whose entries it holds together with labels that
cover it (`Publish`), reboot, or have its Node object recreated. Nothing else
may happen to the Node. This is all the webhook and the provisioner may rely
on. `NodeScanner` implements it (`PublicationSpec`). The nodes of
`Provisioning` were written from it, with the place of each disk and the bounds
on faults added. That they allow every such step of a node whose disks stay
where they are known to be is by reading the two modules, not by proof, and so
is that what is shown of provisioning holds on nodes run by this scanner.

### `NodeScanner`: the scanner on its machine

| Variables | Code |
|---|---|
| `slot`, `fs` | which disk is behind `/dev/sd<i>`, and what is on it |
| `seen` | what lsblk and the symlinks report for a name: equal to `fs` unless `udevadm settle` failed after `mkfs` or udev has not looked at a disk just plugged in (`Unprobed`, which looks raw) |
| `mounts` | the mount table under `/mnt/cubbit` |
| `pc` | where `scan()` is |
| `toFormat`, `toMount`, `job`, `entries`, `diskMap` | the locals: `targets` in `Init`, the slice `ScanUnmounted` returned, the device `Mount` works on, the entries `GetMounts` returned, the map |
| `prevUUIDs` | the field of that name |
| `labels`, `annotation` | the Node object |
| `minted`, `precious`, `exposed`, `published`, `faults` | history, read by properties and bounds only; `exposed` are the disks the scanner has met too early (Init listed them as `Unprobed`) or under a name it was using |

One action per read or effect:

| Step of `scan()` | Actions |
|---|---|
| 1. `Init` | `ScanStart` (enumerate) or `InitFails`; per name `FormatTarget` (mkfs and settle) or `FormatFails` (the rest is dropped) |
| 2. `ScanUnmounted`, `Mount` | `ScanUnmounted`, `ScanUnmountedFails`; per device `ResolveUUID`/`ResolveFails`, `PassRootGuard`/`RefuseRootDisk`, `CheckDevice`/`RefuseDevice`, `AttachDevice`/`AttachFails` |
| 3. `ScanMounted` | `ScanMounted`, `ScanMountedFails`, and `LookupUUID` per entry; `RememberUUIDs` assigns `prevUUIDs` |
| 4. `patchNode` | `PatchNode`, `PatchFails` |
| around it | `Crash`, `Restart`; `Unplug`, `Plug`, `UdevCatchUp`, `Reboot`, `NodeRecreated` |

Abstractions, and what they leave out:

* A "disk" is a unit that can carry one filesystem. A disk with a partition
  table and nothing else is the content `Parts`. `RootParts` are partitions
  of the disk that hosts `/`.
* A UUID names its directory, so paths are UUIDs. Directories themselves are
  not modelled: Mount makes the one it needs if it is not there, nothing else
  reads them, and `MkdirAll` failing looks like `AttachFails`: the device is
  not mounted and the loop goes on.
* `GetMounts` leaves out a mount whose statfs fails. To the map that is what a
  failed lsblk call in `LookupUUID` is (`read`), and nothing else tells them
  apart.
* The mounts are the agent's. The prefix filter of `GetMounts` also keeps the
  mount base itself, which is a bind mount in the container
  (`deploy/daemonset.yaml:43`): where the filesystem of the host's root is ext4
  and large enough it is looked up too, and its UUID published with the mount
  base as directory. That entry is not modelled.
* Contents are a UUID and one of "ours" (ext4 with the agent's label),
  "ext4" (another label) and "other": the code distinguishes no more.
* `mkfs` and the settle after it are one step; a crash between them shows as a
  settle that failed. `mkfs` either makes the filesystem or leaves the disk
  alone, and mints a UUID nobody has seen: two disks never share one.
* An answer to the patch that is lost is `PatchNode`: nothing in the scanner
  depends on the answer. A patch answered with a conflict is sent
  again unchanged a few times (`RetryOnConflict`), which a later `PatchNode`
  stands for; if none gets through it is `PatchFails`, and the next scan makes
  a new one. A cancelled context is a `Crash`.
* The kernel does not give the name of a mounted device away, even if the
  device is gone. The disk with `/` is not pulled out of the running machine.
* A disk that udev has not looked at shows neither filesystem nor partitions;
  udev may look at it at any time (`UdevCatchUp`). When the scanner starts and
  after a reboot udev has settled: the kubelet starts pods later than that.
* Free-space figures are reporting only and left out.
* `Unformattable` are disks on which `mkfs` always fails.

Disturbances are named in `FaultKinds` so that a run or a theorem can say which
it allows: `read` (lsblk or mountinfo fails), `mkfs`, `mount`, `patch`,
`settle` (udevadm settle fails, lsblk lags), `crash`, `reboot`, `unplug`,
`recreate`, and `swap` (a kernel name the scanner has read and is about to use
is given to another disk, which udev has not looked at) and `lag` (lsblk may be
asked before udev has looked at a disk that is plugged in under a name nobody
uses). Plugging a disk in under a free name after which udev is done before
anyone asks is always possible and is not counted.

### `WebhookPromise` and `WebhookBootstrap`: the start of the webhook

`WebhookPromise` states what the replicas promise the API server: one
certificate is chosen for good (`Choose`), a replica serves that one or nothing
(`Serve`, `Stop`), and calls are required only when it is trusted (`Require`),
until the manifest is applied again (`Reset`).

`WebhookBootstrap` has one action per request of `main()` with `--self-sign`:

| Code | Actions |
|---|---|
| `EnsureTLSSecret` | `FindSecret` or `Generate`; then `CreateSecret`, `CreateUnanswered` or `AlreadyExists`, and `RereadSecret` |
| `PatchWebhookCABundle` | `GetConfig`, `ConfigMissing`; `UpdateConfig`, `UpdateUnanswered`, `Conflict` (with the attempts of `RetryOnConflict`) |
| `main` | `StartServer`, `RequestFails` (any other error: exit), `Restart` |
| `deploy/webhook.yaml` | `ApplyManifest`, `Replace` (the ReplicaSet), `Intercepted` (the namespace selector) |
| around it | `Crash`, `Evict`; `CreatePod` and `DeletePod` of a user |

`secret` is the Secret, `config` the webhook configuration with its
resourceVersion (`version`) and the rest of the manifest (`revision`); `pc`,
`cert`, `read` and `tries` are the locals of each replica; `pod` is the pod a
user created last. A CA, its server certificate and key are one certificate:
they are generated and stored together. A configuration without the entry is
one that is not there. Nobody deletes or replaces the Secret, and certificates
do not expire (10 years). A call goes to any replica that serves, or to none.

### `DeviceTree`: shapes of devices

`NodeScanner` takes what lsblk says of a name as given. `DeviceTree` models how
it is found: a state is a tree of devices (`kids`, `content`, `mounted`, and
whether `/` of the machine is visible in mountinfo), which administrators
partition, assemble to arrays, encrypt and format, and the agent formats,
mounts and unmounts.

| Code | Definitions |
|---|---|
| `lsblk.go` | `FlattenDevices`, `FilterDeviceRecursive`, `GetBlockDevices`, `GetBlockDevice`, `GetUUID`, `FindRootDiskDescendants`; a `FilterFunc` is a function from devices to `Answer(skip, stop)`, combined by `And`, `Or`, `Not` |
| `initializer.go` | `InitTargets`, action `FormatTargets` |
| `scanner.go` | `ScanUnmounted`, `ScanMounted`, `ScanAll` |
| `device_resolver.go`, `mounter.go` | `ResolveUUID`, `RefusedAsRoot`, `HasOurLabel`, actions `MountListed`, `Unmount` |

Abstractions: one call sees one state of the machine (the races are in
`NodeScanner`); `/` is never on a filesystem with the agent's label; the udev
symlink for a UUID, tried before lsblk, leads to the device lsblk would find;
an array is printed by lsblk under each member, so the tree is an acyclic graph
walked as a tree; `GetUUID` falls back to a second read of the same tree, which
finds nothing new. A loop that appends what passes a test to a list is
`Among(list, set)`.

Two assumptions say what lsblk prints: a top-level device is listed once and is
a disk or a loop device (`DisksAssumption`), and a partition is on one disk,
once (`PartsAssumption`). `raid1` stands for devices over several members,
`crypt` for all others that are stacked: the code tells no other types apart.

### `Provisioning`: from a published disk to a running pod

| Variables | Code |
|---|---|
| `host`, `held`, `dead`, `labels`, `annotation`, `published` | by node: its disks, its mounts and its Node object; the actions are written from those of `NodePublication`, with disks that move |
| `live`, `claim`, `volumes` | PVCs by name, with UID, UUID annotation and selected node; PVs with path, node affinity and `claimRef` |
| `seenClaims`, `seenLabels` | the informer caches of each webhook replica |
| `pod` | a pod on its way: admitting (with what the webhook has read), pending, reserved, bound, running |
| `job` | the call of `Provision` a worker is in |
| `offered`, `faults` | history and bound |

| Code | Actions |
|---|---|
| `mutate` | `AdmitRead` (`diskUUIDForPod`: the claims in order, cache first, then live), then `AdmitPinned` or `Deny` (`findNodeForUUID`, any node with the label in the cache); a pod without such a claim is allowed as it is |
| informers | `SyncClaim`, `SyncNode`, one object at a time |
| `Provision` | `CallProvision` (claim and node as the library read them), `ReadDiskMap` or `Reschedule`, `CreateVolume`, `ProvisionFails` |
| `Delete` | `DeleteVolume` |
| not in the repository | `Schedule`, `Unreserve`, `BindPod` (scheduler), `StartPod` (kubelet), `CreateClaim`, `DeleteClaim`, `DeletePod` (users), the library around `Provision`, `AdmitUnseen` (the API server while the policy is `Ignore`) |

Abstractions:

* Scheduler, kubelet, volume controller and controller library do what the code
  relies on, one step at a time and as late as they like. A volume is named
  after the UID of its claim, so there is one per UID.
* `Provision` refuses a claim without annotation or node at once and changes
  nothing; it is not called then. A worker that dies, a lost leadership and an
  API error all are `ProvisionFails`: the claim is taken up again. That
  the library gives up after ten failures until its next resync only delays.
* Capacity, reclaim policy and access modes are copied data.
* A pod is denied without a trace; its controller creates it again. Annotations
  of a claim do not change while it exists. PVC protection keeps claims that
  pods use.
* A pod's volumes are bound when it starts and do not see later mounts, so
  `onDisk` is decided by `StartPod`.
* A user's own node selector is not modelled; the hostname in it would be
  overwritten (section 6).

### Operators named as mutants

Next to some helpers of `NodeScanner`, `WebhookBootstrap`, `DeviceTree` and
`Provisioning` stands a second one introduced by "A mutant:". It is the helper
with a plausible mistake in it; nothing of the specification uses it. Replacing
the helper by it must break the property that `PROJECT.json` names, which shows
that the property does depend on the code.

## 3. Runs

| Run (cfg) | Properties | What it shows |
|---|---|---|
| core (`MCNodeScanner`) | `TypeOK`, `MapTruthful`, `LabelsCoverMap`, `PublicationSpec` | two disks, five kinds of initial contents, any two disturbances except `settle`, names that change hands in the middle of a scan and an lsblk asked too early included: what is published is mounted where it says |
| root_guard (`MCRootGuard`) | `OnlyManagedMounts`, `MountedAtOwnPath`, `NoDataLoss` | three disks, of which one is a partition of the root disk with our label; another may have a foreign label; disks are met too early (`lag`) and take over names between resolve, check and mount or before `mkfs` (`swap`): only these disks suffer from it |
| convergence (`MCConvergence`) | `NoDataLoss`, `EventuallyServed`, `EventuallyOnlyLive` | after any two disturbances except `swap`, `settle` included, the node converges, although one disk can never be formatted; data never goes |
| device_tree (`MCDeviceTree`) | `TypeOK`, `FormatsOnlyFree`, `ListedIsResolved`, `ScannedUnderItsUUID`, `FiltersSelect`, `MountsOnlyManaged` | every tree that can be built from two disks, three partitions, an array and an encrypted device |
| bootstrap (`MCBootstrap`) | `TypeOK`, `ServedIsTrusted`, `ManifestNeverReverted`, `PromiseSpec`, `EventuallyTrusted`, `RejectedPodGetsIn` | two replicas race through the start with lost answers, crashes, evictions and a second manifest |
| provisioning (`MCProvisioning`) | `TypeOK`, `VolumesWereOffered`, `RunsWhereItsDisksAre`, `StartsOnScannedDisk`, `PinnedWhereOffered`, `EventuallyRuns` | a pod with two claims on two nodes, stale caches, claims deleted and created again under the same name, and any one disturbance |
| stale_labels, borderline_size, hot_plug, first_pod, two_claims, empty_directory | one each | a sentence of the documentation or of a comment that the code does not keep; section 6 |

**Bounds.** Two disks and three names are enough for every race between two
disks: one returns under another name while its dead mount keeps the old one,
next to a second one that moves to a name the scanner holds; root_guard adds a
disk and a name for the root disk. `MaxFaults` is 0 to 2 and counts only
disturbances, not steps: the interesting stories (pull out, put back, crash)
take two. A `swap` or a `lag` counts as one; without the bound a disk could be
plugged in for ever. The number of UUIDs bounds how many filesystems are ever made; a run
whose UUIDs ran out would stop inside `FormatTarget`, which TLC reports as a
deadlock, so the runs, all of which check deadlock but device_tree, show that
the bound is never reached. Two webhook replicas are what is deployed; three
would race in no new way, since all but the first creator of the Secret do the
same. `MaxTries` is 2 instead of the 5 of client-go, so that two faults suffice
to exhaust it.

In provisioning two nodes are what a disk needs to move, and two claims what a
pod needs to have a first one that does not decide (no annotation) or does not
agree with the second. Nodes are interchangeable, so the disks start both in
`n1` or one in each (`InitialHosts`). `MaxId` = 2 lets a claim be created again
once. One disturbance at a time, one replica and one worker keep the run small:
a replica is as stale as it likes by itself, and with one worker the claim, the
node and the map still change under it. More of each is covered by the proofs,
which bound none of them. In device_tree each disk, array and encrypted device
can be used once, and the run ends where nothing is left to do, so deadlock is
not checked; one partition is below the minimum size.

**Fairness.** `FairSpec` of `NodeScanner` has weak fairness of `ScanStep` (the
ticker fires, no call hangs for ever, and a DaemonSet pod is restarted) and of
`UdevCatchUp` (the udev queue is worked off). Nothing is assumed of faults, of
plugging in or of pulling out. `ScanStep` contains failures, but each of them
is bounded by `MaxFaults`: "eventually" means after the disturbances have
ceased. That `mkfs` and `lsblk` run without a timeout is a hazard that the
fairness assumes away. In `WebhookBootstrap` each replica goes on, the manifest
is applied once, and a rejected pod is created again, but whether it meets a
replica that can answer is not assumed. Nothing is assumed of a second
manifest. In `Provisioning` scanners scan, informers catch up, a denied pod is
created again by its controller, and scheduler, kubelet and provisioner go on
(the library retries with backoff). Nothing is assumed of users or disks, nor
of which labelled node the webhook finds first.

`EventuallyServed` and `EventuallyRuns` name their exceptions, which are what
the code does not make good: a dead mount in the way (`Stranded`), a disk
before it that cannot be formatted (`Starved`), a pod that something stale has
sent to another node than its disks (`Misplaced`).

**Only model-checked:** liveness (`EventuallyServed`, `EventuallyOnlyLive`,
`EventuallyTrusted`, `RejectedPodGetsIn`, `EventuallyRuns`), which needs
ENABLED. Every other property of a passing run is also proved, under the
assumptions on disturbances of section 4. The settle failures that
`MapTruthful`, `PublicationSpec` and `MountedAtOwnPath` exclude, and the swaps
that `StartsOnScannedDisk` does, are in no run of these properties either.

## 4. Proofs

| Theorem | Assumes | Argument |
|---|---|---|
| `TypeCorrect` | | `TypeOK` is inductive |
| `LabelsAlwaysCoverMap` | | inductive with `TypeOK`: a patch writes both, and the labels it nulls are not among the keys it writes |
| `MapIsTruthful` | no `settle` | from `TruthInv` |
| `NoDataIsLost` | | from `KeepInv` |
| `ImplementsPublication` | no `settle` | `TruthInv` and a step for each action: it is a `Hold`, `Publish`, `Reboot`, `Recreate` or a stutter |
| `AlwaysMountedAtOwnPath` | no `settle` | from `OwnPathInv` |
| `AlwaysOnlyManagedMounts` | | from `ManagedInv` |
| `BootstrapTypeCorrect` | | `TypeInv` |
| `ServedIsAlwaysTrusted` | | from `AgreementInv` |
| `ManifestIsNeverReverted` | | from `ReadInv` |
| `KeepsPromise` | | `AgreementInv` and a step for each action |
| `ProvisioningTypeCorrect` | | `TypeInv` |
| `VolumesAreOffered` | | from `OfferInv` |
| `AlwaysRunsWhereItsDisksAre` | | from `ClaimInv` and `PlaceInv` |
| `AlwaysStartsOnScannedDisk` | no `swap` | from `PathInv` |
| `AlwaysPinnedWhereOffered` | | from `LabelInv` and `AdmittedBy` |
| `DeviceTreeTypeCorrect`, `FormatsOnlyFreeAlways` | | from `TreeInv` |
| `ListedIsResolvedAlways`, `ScannedUnderItsUUIDAlways` | | from `TreeInv`; the walks find each plain device once |
| `FiltersSelectAlways` | | three of the agent's filters, their And, Or and Not, and the search by name: from the acyclicity in `TreeInv`, by induction along the walk |
| `CombinedFiltersSelectAlways` | | any filter that never stops, any sequence of such under And and Or, and Not: as above, and all three again never stop |
| `MountsOnlyManagedAlways` | | from `TreeInv` and the step of `MountListed` |

They hold for every number of disks, names, nodes, UUIDs, claims, pods,
replicas, workers, certificates, attempts and faults, and every number and
arrangement of disks, partitions, arrays and mappings. They are in
`NodeScannerProofs`, `NodeScannerDataProofs`, `NodeScannerRefinementProofs`,
`WebhookBootstrapProofs`, `ProvisioningProofs` and `DeviceTreeProofs`; the last
rests on `DeviceTreeLemmas` and `SequenceLemmas`.

* **`TruthInv`.** `MapTruthful` is not inductive: the annotation is written
  from `diskMap`, which was built from `entries`, which were read from
  `mounts`. The invariant says that along this chain each stage only speaks of
  mounts that exist, that a mount records what is on its disk, and that lsblk,
  asked for the source of a mount whose disk is present, answers with the UUID
  that was mounted, or with none. The last part is where a settle that fails
  would break it: a disk formatted again under a mount, or one still reported
  with the UUID it had. That is why `settle` is excluded. Hot swaps need not
  be, a kernel name is not given away while mounted; nor need `lag`, which hides
  a UUID and never shows a wrong one (`Accurate`).
* **`KeepInv`.** A name that lsblk shows as blank has behind it a disk that
  carries nothing precious, and so has a name in `toFormat`, unless the disk is
  `exposed`. After a settle that fails `seen` can only hide a filesystem that
  was just made and has never been mounted. A disk that looks raw because udev
  has not looked at it is exposed when Init lists it, and one that takes over a
  name in use is when it does: these two are the only ways in which a disk with
  data gets into `toFormat`, which is what the theorem says of the code.
* **`OwnPathInv`.** Adds to `TruthInv` that the device in `job` still has
  the UUID that was resolved and that names in `toFormat` are blank, each but
  for exposed disks, and that a mount on a disk that is not exposed has that
  disk's UUID.
* **`ManagedInv`.** What is shown of a label is true (`LabelsTrue`), what is
  about to be mounted still carries the label that was read unless the disk is
  exposed, and is not on the root disk if no read can fail: a disk of the root
  is always plugged in (`RootPlugged`) and so never takes over a name. No
  disturbance is excluded, since `mkfs` writes the agent's label itself.
* **`TypeInv`, `AgreementInv`, `ReadInv`.** A replica between `AlreadyExists`
  and its second Get holds a certificate that is not the one in the Secret, so
  agreement is claimed only past `EnsureTLSSecret`, and that the Secret is there
  already before. That nobody else can be past it while there is no Secret is
  what makes the create safe. `ReadInv` says that a replica about to update has
  read the present configuration or an older version of it.

* **`OfferInv`, `ClaimInv`, `PlaceInv`, `PathInv`.** A volume copies what a
  `Provision` call has read, so the invariant follows a path from the annotation
  through `job` into `volumes`: each stage only holds what was offered. Claims
  are told apart by UID, not by name: a call or a volume made for a claim that
  was deleted and created again has an older UID and is not bound to the new
  one, which is what keeps a pod off another disk. With `swap` excluded every
  path is the disk's own, so an old path is still right.
* **`LabelInv`, `AdmittedBy`.** Labels are never taken off and caches lag, so
  the invariant does not say that a label is true, only that its node has once
  published the disk; it covers the Node objects and every replica's cache, from
  which the pin is chosen, and a pod is admitted by one of the replicas.

* **`TreeInv`.** What is stacked is acyclic and has one of three shapes (a
  disk with its partitions, one array, one mapping); what is in use hangs off a
  disk (`AttachedInv`), or else an array put on some members could already have
  something on it and close a circle; a device with something on top shows no
  filesystem (`ContentInv`); the agent's mounts are on filesystems with its
  label, at their own UUID (`MountInv`). The shape is what `ListedIsResolved`
  needs, `MountInv` what `FormatsOnlyFree` does; that a mount is reported under
  its UUID needs also that its device hangs off a disk, and that nothing in use
  is on top of what Mount takes, `ContentInv`.

**Walks.** `Subtree` and `FilterDeviceRecursive` are recursive functions over an
acyclic graph, and `FlattenSeq` is one over sequences, so each is a `CHOOSE` of
which nothing is known until a function that obeys the recursion is shown to
exist. `FlattenSteps` does it for sequences and `WalkExists` for any acyclic
stacking: solutions on closed sets of devices agree, their union is one, and by
acyclicity it covers all devices. Induction is done with sets, not predicates:
a set that holds a device as soon as it holds all on top of it holds every
device (`TreeInduction`), and for naturals `SetInduction` from the
well-foundedness of `<`. `Reach` and `Reached`, the least closed sets, say
without recursion what a walk must find (`WalkElements`, `AllIsReached`), so the
inductive invariant itself mentions no walk. `PlainOnce` is why a device is
listed once: arrays and mappings are printed under each member, but disks and
partitions are reached along one path only.

The invariants of the scanner were model-checked before they were proved, and
so was `TreeInv` on the instance of `MCDeviceTree`. Removing the
assumption on `FaultKinds` makes exactly the step for that disturbance fail.

## 5. Hazards

`PROJECT.json` lists them with their lines and the properties that cover them.
Three have none, each with its reason: calls without a timeout, a manifest
applied again while all replicas serve, and a Secret that is deleted.

## 6. Where documentation and code disagree

Each is a run TLC must find violated.

* **stale_labels.** `scan()` assigns `prevUUIDs = currentUUIDs` before it calls
  `patchNode`, which computes the labels to delete from `prevUUIDs` minus the
  current ones: always the empty set. The label of a disk that was pulled out
  stays for good (`scanner.go:158`, against `scanner.go:166` and
  `docs/architecture.md:104`).
* **borderline_size.** `Init` and `ScanUnmounted` compare the size of the
  device with `--min-size`, `ScanMounted` the smaller size of the filesystem. A
  disk just large enough is formatted and mounted and never published.
* **first_pod.** Until a replica has patched the configuration its
  `failurePolicy` is `Ignore`: a pod created before that is not rejected, as
  `README.md:80` says, but admitted without a node selector.
* **hot_plug.** `Init` lists the devices with no `udevadm settle` before it
  (`initializer.go:43`); the only one is after `mkfs`
  (`format_provider.go:55`). A disk with a filesystem that was plugged in a
  moment ago may show neither FSTYPE nor UUID yet, passes for raw and is
  formatted (against `initializer.go:55` and `docs/architecture.md:33`).
* **two_claims.** `Provision` does not look for an existing volume of the disk:
  two claims with one UUID get two volumes on one directory
  (`provisioner.go:71`, against `docs/architecture.md:107`).
* **empty_directory.** After a reboot the kubelet starts a pod on the directory
  of its volume whether or not the scanner has mounted the disk there again
  (against `docs/architecture.md:58`). `StartsOnScannedDisk` is what does hold.

Met while modelling, without a run of their own:

* `Init` returns at the first `mkfs` error and starts with the same disk next
  time, so the raw disks after one that can never be formatted never are
  (`initializer.go:85`, against `docs/architecture.md:109`): the exception
  `Starved` of `EventuallyServed`.
* Names are collected first and formatted later. A disk with data that gets the
  name of a raw one in between is formatted (`initializer.go:84`): without the
  exception `exposed`, TLC finds `NoDataLoss` violated by `swap`.
* Mount works by name. A disk that gets the name between the resolution of a
  UUID or the reading of the label and the mount (`mounter.go:62` to `120`) is
  mounted at the other disk's directory, whatever its own label: the exception
  of `OnlyManagedMounts` and `MountedAtOwnPath`. The map then publishes the
  directory under the UUID of the disk that is really there (`MapTruthful`).
* A disk that was pulled out, comes back and is mistaken for raw is formatted
  and mounted a second time, under its new UUID, next to its dead mount.
* A disk that was pulled out and put back is not mounted again: its dead mount
  makes `Mount` believe that it is (`mounter.go:100`, against
  `docs/architecture.md:34`): the exception `Stranded` of `EventuallyServed`.
* A `FilterFunc` that stops does not "stop processing remaining devices"
  (`lsblk.go:127`), only the descent below the device.
* The root-disk guard excludes one disk only when `/` is on an array of two,
  and none when `/` is an overlay, as it is in the container of the DaemonSet.
* A hostname in the user's own node selector is overwritten
  (`webhook.go:173`), where `docs/architecture.md:98` says that node affinity is
  extended and constraints of the user are preserved.
* `Delete` says that it removes the ownership annotation (`provisioner.go:130`);
  it removes nothing.

## 7. Not modelled

* The logger, the test code, and the manifests (what they imply is assumed:
  restarts, two webhook replicas, one scanner per node).
* `fstype.go`: validation of strings, without state; unit tests cover it, and
  most of it is not called by the three programs.
* How `lsblk.go` converts JSON numbers and booleans (lines 36 to 108): string
  parsing without state.
* Free and used space of a device, which nothing reads; `DryRun`; the start of
  the webhook from certificate files.
* `Mount` without `ManagedOnly` or with an automatic filesystem type: no
  program configures it so.
* Annotations of a claim edited while it exists, and expansion of volumes.

## 8. Plan

Done: all modules above, their runs and proofs. What could still be added: two
mounters at a time, should a program other than the scanner ever mount;
the webhook with several namespaces; `Provisioning` composed with one
`NodeScanner` per node in place of its own node actions, which would show what
section 2 leaves to reading.
