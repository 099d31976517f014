SPECIFICATION FairSpec
CONSTANTS
    a1 = a1
    c1 = c1
    Bookings <- TheBookings
    Charger <- TheCharger
    Start <- TheStart
    End <- TheEnd
    Sweepers = {sweep}
    Staff = {desk}
    Moderate = 1
    MaxDepth = 1
    MaxClock = 1
INVARIANTS
    FiledOnce
PROPERTIES
    RecoveryComes
    FinalInTheEnd
CHECK_DEADLOCK FALSE
