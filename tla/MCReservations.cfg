SPECIFICATION Spec
CONSTANTS
    i1 = i1
    i2 = i2
    i3 = i3
    s1 = s1
    s2 = s2
    x1 = x1
    n1 = n1
    n2 = n2
    Tickets = {}
    MinWindow = 1
    MaxWindow = 1
    MaxDataSize = 1
    MaxOpenDeadline = 1
    NoReservation = NoReservation
    Sources = {s1, s2}
    Contexts = {x1}
    ReservationIds = {i1, i2, i3}
    Settings <- SmallSettings
    MaxTime = 1
INVARIANTS
    CountsAreExact
    UsableWasSigned
    AcceptedIsUsable
    RenewedIsGone
PROPERTY
    ImplementsPool
SYMMETRY IdSymmetry
CHECK_DEADLOCK FALSE
