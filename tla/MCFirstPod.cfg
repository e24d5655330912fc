SPECIFICATION Spec
CONSTANTS
    Replicas = {r1, r2}
    Certs = {c1, c2}
    NoCert = NoCert
    MaxTries = 5
    FaultKinds = {}
    MaxFaults = 0
PROPERTIES
    NoPodPassesUnseen
