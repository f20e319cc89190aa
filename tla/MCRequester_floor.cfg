SPECIFICATION Spec
CONSTANTS
    r1 = r1
    c1 = c1
    k1 = k1
    k2 = k2
    ra = ra
    rb = rb
    Tickets <- TwoExpiries
    MinWindow = 1
    MaxWindow = 2
    MaxDataSize = 2
    MaxOpenDeadline = 1
    RqMaxCircuits = 2
    RqMaxQueue = 2
    RqMaxBytes = 3
    Relays = {ra, rb}
    Contexts = {c1}
    Circuits = {k1, k2}
    Lengths = {1, 2}
    FloorWithSnapshots = FALSE
    Bounds <- RestartsOnly
INVARIANT
    OptOutHolds
SYMMETRY IdSymmetry
CHECK_DEADLOCK FALSE
