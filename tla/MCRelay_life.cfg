SPECIFICATION Spec
CONSTANTS
    r1 = r1
    c1 = c1
    k1 = k1
    k2 = k2
    k3 = k3
    p1 = p1
    p2 = p2
    Tickets <- OneByte
    Grants <- OneByteGrant
    MinWindow = 1
    MaxWindow = 1
    MaxDataSize = 1
    MaxOpenDeadline = 1
    MaxPending = 2
    MaxCircuits = 2
    MaxPerPeer = 2
    MaxQueue = 2
    MaxBytesPerCircuit = 3
    AcceptTimeout = 1
    MaxInflight = 3
    MaxInflightPerCircuit = 2
    MaxInflightPerPeer = 2
    Peers = {p1, p2}
    Contexts = {c1}
    Circuits = {k1, k2}
    Lengths = {1}
    Bounds <- LifeBounds
INVARIANTS
    NoOrphanActions
    SignedLimitsHold
    OpensAreAccounted
    AcksAreExact
    OptOutHolds
SYMMETRY CircuitSymmetry
CHECK_DEADLOCK FALSE
