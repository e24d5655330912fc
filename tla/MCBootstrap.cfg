SPECIFICATION FairSpec
CONSTANTS
    Replicas = {r1, r2}
    Certs = {c1, c2, c3, c4}
    NoCert = NoCert
    MaxTries = 2
    FaultKinds = {"api", "crash", "evict", "apply"}
    MaxFaults = 2
INVARIANTS
    TypeOK
    ServedIsTrusted
PROPERTIES
    ManifestNeverReverted
    PromiseSpec
    EventuallyTrusted
    RejectedPodGetsIn
