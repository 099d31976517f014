CONSTANTS
    b1 = b1
    b2 = b2
    o1 = o1
    Nobody = Nobody
    Bookings <- MCBookings
    Offers <- MCOffers
    Cells <- MCCells
    Ranges <- MCRanges
    HoldTicks = 1
    MaxClock = 2
SPECIFICATION FairSpec
INVARIANTS
    LeaseInv
    FirmLease
    NoDoubleSale
    HoldHonoured
    AcceptCannotLose
    NoPartialLease
PROPERTIES
    ImplementsLease
    HoldsAreReclaimed
CHECK_DEADLOCK FALSE
