CONSTANTS
    i1 = i1
    i2 = i2
    d1 = d1
    d2 = d2
    c1 = c1
    NoIntent = NoIntent
    Intents <- TwoIntents
    Deliveries <- TwoDeliveries
    Cancels <- OneCancel
SPECIFICATION FairSpec
INVARIANTS
    PaidIsBacked
    NoDepositForgotten
    RefundIsRecorded
    ReservedHasTime
PROPERTIES
    UnpaidHoldEnds
    CancelledGivesBack
CHECK_DEADLOCK FALSE
