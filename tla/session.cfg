CONSTANTS
    c1 = c1
    c2 = c2
    Calls <- TwoCallers
SPECIFICATION FairSpec
INVARIANTS
    SettledWhenGone
    EndedWasStarted
    StatusFollowsInTurn
    SessionHasBay
PROPERTIES
    EndedStays
    EndGivesBack
CHECK_DEADLOCK FALSE
