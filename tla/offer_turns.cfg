CONSTANTS
    r1 = r1
    r2 = r2
    bay1 = bay1
    bay2 = bay2
    None = None
    Sweeper = Sweeper
    Passes <- FourPasses
    Replies <- TwoReplies
    Bays <- TwoBays
    MaxOffers = 3
    Overlap = 1
    Mortal <- NoHandler
SPECIFICATION FairSpec
INVARIANTS
    OneLiveOffer
    PendingIsOffered
    LiveOfferIsNamed
    CapRespected
PROPERTIES
    RejectionStands
    PendingEnds
CHECK_DEADLOCK FALSE
