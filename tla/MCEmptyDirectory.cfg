SPECIFICATION FairSpec
CONSTANTS
    n1 = n1  n2 = n2  u1 = u1  u2 = u2  c1 = c1  c2 = c2  p1 = p1  p2 = p2
    Nodes = {n1}
    NoNode = NoNode
    UUIDs = {u1}
    NoUUID = NoUUID
    InitialHosts <- OneNode
    Claims = {c1, c2}
    Absent = Absent
    Pods = {p1}
    PodClaims <- OnePod
    MayAsk <- AskFirst
    Replicas = {r1}
    Workers = {w1}
    MaxId = 1
    FaultKinds = {"reboot"}
    MaxFaults = 1
PROPERTIES
    StartsOnDisk
