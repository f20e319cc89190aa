SPECIFICATION Spec
CONSTANTS
    MaxRouteLifetime = 1
    MaxRevision = 5
    MaxContacts = 2
    k1 = k1
    e1 = e1
    s1 = s1
    p1 = p1
    p2 = p2
    Keys = {k1}
    Sources = {s1}
    Instances = {p1, p2}
    Settings <- TwoSettings
    Times = {0, 1}
SYMMETRY InstanceSymmetry
INVARIANTS
    AnswersAreDurable
    PendingFitsStorage
    AcceptedNeverRegresses
CHECK_DEADLOCK FALSE
