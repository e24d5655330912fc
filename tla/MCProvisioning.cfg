SPECIFICATION FairSpec
CONSTANTS
    n1 = n1  n2 = n2  u1 = u1  u2 = u2  c1 = c1  c2 = c2  p1 = p1  p2 = p2
    Nodes = {n1, n2}
    NoNode = NoNode
    UUIDs = {u1, u2}
    NoUUID = NoUUID
    InitialHosts <- OneOrTwoNodes
    Claims = {c1, c2}
    Absent = Absent
    Pods = {p1}
    PodClaims <- OnePod
    MayAsk <- AskAny
    Replicas = {r1}
    Workers = {w1}
    MaxId = 2
    FaultKinds = {"read","move","reboot","recreate","delete","unseen","api"}
    MaxFaults = 1
INVARIANTS
    TypeOK
    VolumesWereOffered
    RunsWhereItsDisksAre
PROPERTIES
    StartsOnScannedDisk
    PinnedWhereOffered
    EventuallyRuns
