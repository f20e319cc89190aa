CONSTANTS
    Contexts = {c1, c2}
    Services = {s1}
    Manifests <- GrowingChain
    NoVal = NoVal
    Unusable = Unusable
    Absent = Absent
    Capacity = 1
    MaxCacheLifetime = 1
    MaxRevision = 4
    MaxTime = 1
    MaxFence = 3
    MaxFaults = 1
SPECIFICATION Spec
INVARIANTS BoundIsDurable NoForkedLineage ResultsAreDurable
SYMMETRY ContextSymmetry
CHECK_DEADLOCK FALSE
