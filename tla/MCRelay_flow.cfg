SPECIFICATION Spec
CONSTANTS
    r1 = r1
    c1 = c1
    k1 = k1
    k2 = k2
    k3 = k3
    p1 = p1
    p2 = p2
    Tickets <- TwoBytes
    Grants <- TwoBytesGrant
    MinWindow = 2
    MaxWindow = 2
    MaxDataSize = 2
    MaxOpenDeadline = 1
    MaxPending = 2
    MaxCircuits = 3
    MaxPerPeer = 2
    MaxQueue = 2
    MaxBytesPerCircuit = 3
    AcceptTimeout = 1
    MaxInflight = 3
    MaxInflightPerCircuit = 2
    MaxInflightPerPeer = 2
    Peers = {p1, p2}
    Contexts = {c1}
    Circuits = {k1, k2, k3}
    Lengths = {1, 2}
    Bounds <- FlowBounds
INVARIANTS
    QueueAccounting
    CapacityHolds
SYMMETRY CircuitSymmetry
CHECK_DEADLOCK FALSE
