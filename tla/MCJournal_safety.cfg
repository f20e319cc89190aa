SPECIFICATION Spec
CONSTANTS
    b1 = b1
    b2 = b2
    nsA = nsA
    nsB = nsB
    x = x
    y = y
    s1 = s1
    Brokers = {b1, b2}
    Bindings = {nsA, nsB}
    BindingOf <- OneBinding
    Fingerprints = {x, y}
    Seals = {s1}
    MaxRevision = 3
    MaxProtocolRevision = 3
    MaxFaults = 2
    MaxForeign = 0
    FirstState <- FirstIdentity
    NoRecord = NoRecord
    NoImage = NoImage
    NoSeal = NoSeal
    Absent = Absent
    NoBroker = NoBroker
    NoMutation = NoMutation
INVARIANTS
    TypeOK
    NoForkedResult
    ResultsFollowFences
    CurrentViewIsExact
    OneLiveMutation
    JournalCoversDatabase
    NoSpuriousFailClosed
    PreparedIsFinalizable
PROPERTIES
    JournalOnlyAdvances
CHECK_DEADLOCK FALSE
SYMMETRY BrokerSymmetry
