CONSTANTS
    i1 = i1
    i2 = i2
    c1 = c1
    c2 = c2
    k1 = k1
    k2 = k2
    None = None
    Incidents <- TwoIncidents
    Chargers <- TwoChargers
    Calls <- TwoCalls
SPECIFICATION Spec
INVARIANTS
    ChargersAgree
SYMMETRY Alike
CHECK_DEADLOCK FALSE
