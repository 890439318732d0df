SPECIFICATION Spec
CONSTANTS
    Daemons = {d1, d2}
    People = {p1}
    None = None
    MaxEvents = 4
    MaxFaults = 1
SYMMETRY Symmetry
INVARIANTS AtMostOneHolder NothingStray PublishedStaysClaimed
CHECK_DEADLOCK FALSE
