CONSTANTS
    r1 = r1
    r2 = r2
    bay1 = bay1
    bay2 = bay2
    None = None
    Sweeper = Sweeper
    Passes <- TwoPasses
    Replies <- TwoReplies
    Bays <- TwoBays
    MaxOffers = 2
    Overlap = 2
    Mortal <- AllHandlers
SPECIFICATION Spec
INVARIANTS
    OneReservationPerOffer
    ReservationsAreBacked
SYMMETRY Alike
CHECK_DEADLOCK FALSE
