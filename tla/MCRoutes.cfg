SPECIFICATION Spec
CONSTANTS
    MaxRouteLifetime = 1
    MaxRevision = 6
    k1 = k1
    e1 = e1
    e2 = e2
    e3 = e3
    s1 = s1
    s2 = s2
    Keys = {k1}
    Sources = {s1, s2}
    Times = {0, 1, 2}
    Workloads <- TwoWorkloads
SYMMETRY SourceSymmetry
INVARIANTS
    CountersAreExact
    LiveRealisesLedger
    LedgerIsJoin
    RestartIsPruning
CHECK_DEADLOCK FALSE
