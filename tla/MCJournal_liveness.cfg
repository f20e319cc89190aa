SPECIFICATION FairSpec
CONSTANTS
    b1 = b1
    b2 = b2
    nsA = nsA
    nsB = nsB
    x = x
    y = y
    s1 = s1
    Brokers = {b1}
    Bindings = {nsA, nsB}
    BindingOf <- OneBinding
    Fingerprints = {x}
    Seals = {s1}
    MaxRevision = 3
    MaxProtocolRevision = 2
    MaxFaults = 3
    MaxForeign = 0
    FirstState <- FirstIdentity
    NoRecord = NoRecord
    NoImage = NoImage
    NoSeal = NoSeal
    Absent = Absent
    NoBroker = NoBroker
    NoMutation = NoMutation
PROPERTIES
    PreparedSettles
    RecoveryConverges
CHECK_DEADLOCK FALSE
