CONSTANTS
    b1 = b1
    b2 = b2
    s1 = s1
    s2 = s2
    c1 = c1
    c2 = c2
    None = None
    Bookings <- TwoBookings
    Slots <- TwoSlots
    Calls <- OneCall
SPECIFICATION SlotsSpec
INVARIANTS
    GuardMaintains
CHECK_DEADLOCK FALSE
