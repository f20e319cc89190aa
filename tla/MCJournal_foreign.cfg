SPECIFICATION Spec
CONSTANTS
    b1 = b1
    b2 = b2
    nsA = nsA
    nsB = nsB
    x = x
    y = y
    s1 = s1
    Brokers = {b1, b2}
    Bindings = {nsA, nsB}
    BindingOf <- TwoBindings
    Fingerprints = {x, y}
    Seals = {s1}
    MaxRevision = 5
    MaxProtocolRevision = 3
    MaxFaults = 1
    MaxForeign = 1
    FirstState <- FirstIdentity
    NoRecord = NoRecord
    NoImage = NoImage
    NoSeal = NoSeal
    Absent = Absent
    NoBroker = NoBroker
    NoMutation = NoMutation
PROPERTIES
    ImplementsRegister
CHECK_DEADLOCK FALSE
