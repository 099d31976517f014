CONSTANTS
    c1 = c1
    c2 = c2
    Calls <- TwoCalls
    Base = 1
    Window = 2
    MostAsked = 2
    Day = 3
    MaxExtensions = 2
SPECIFICATION Spec
SYMMETRY CallSymmetry
INVARIANTS
    GrantMatchesLength
    BookedTimeIsSafe
    RowsMatchInTurn
PROPERTIES
    CeilingHolds
CHECK_DEADLOCK FALSE
