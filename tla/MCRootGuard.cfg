SPECIFICATION Spec
CONSTANTS
    d1 = d1  d2 = d2  d3 = d3
    u1 = u1  u2 = u2  u3 = u3  u4 = u4  u5 = u5
    Disks = {d1, d2, d3}
    NoDisk = NoDisk
    UUIDs = {u1, u2, u3, u4, u5}
    NoUUID = NoUUID
    NumDevs = 4
    RawSize <- Large
    FsSize <- LargeFs
    MinSize = 10
    Unformattable = {}
    RootParts = {d3}
    RootVisible = TRUE
    InitialFs <- NextToRoot
    FaultKinds = {"unplug", "lag", "swap", "crash", "reboot", "mount", "mkfs"}
    MaxFaults = 2
INVARIANTS
    OnlyManagedMounts
    MountedAtOwnPath
PROPERTIES
    NoDataLoss
