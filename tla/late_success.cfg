CONSTANTS
    i1 = i1
    i2 = i2
    d1 = d1
    d2 = d2
    c1 = c1
    NoIntent = NoIntent
    Intents <- OneIntent
    Deliveries <- OneDelivery
    Cancels <- OneCancel
SPECIFICATION Spec
INVARIANTS
    LateSuccessIsRefunded
CHECK_DEADLOCK FALSE
