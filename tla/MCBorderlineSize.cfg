SPECIFICATION FairSpec
CONSTANTS
    d1 = d1  d2 = d2  d3 = d3
    u1 = u1  u2 = u2  u3 = u3  u4 = u4  u5 = u5
    Disks = {d1, d2}
    NoDisk = NoDisk
    UUIDs = {u1, u2}
    NoUUID = NoUUID
    NumDevs = 3
    RawSize <- Borderline
    FsSize <- BorderlineFs
    MinSize = 10
    Unformattable = {}
    RootParts = {}
    RootVisible = FALSE
    InitialFs <- RawAndOurs
    FaultKinds = {}
    MaxFaults = 0
PROPERTIES
    MountedDisksLabelled
