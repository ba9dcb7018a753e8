SPECIFICATION Spec
CONSTANTS
    Pids = {p1, p2, p3}
    Nobody = nobody
    Estimates <- MCEstimates
    Limits <- MCLimits
    MaxReservations = 3
    MaxDeaths = 1
SYMMETRY AnyPid
CHECK_DEADLOCK FALSE
INVARIANTS TypeOK WithinLimits ReservationsAreExact SerializedUpToOrphans
PROPERTY ImplementsBookings
