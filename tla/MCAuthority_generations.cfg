CONSTANTS
    Contexts = {c1}
    Services = {s1, s2}
    Manifests <- ForkingChain
    NoVal = NoVal
    Unusable = Unusable
    Absent = Absent
    Capacity = 2
    MaxCacheLifetime = 1
    MaxRevision = 5
    MaxTime = 1
    MaxFence = 1
    MaxFaults = 0
SPECIFICATION Spec
INVARIANTS GenerationsNeverFall PreparedIsValid
CHECK_DEADLOCK FALSE
