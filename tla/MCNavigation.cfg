SPECIFICATION FairSpec
CONSTANTS
    a = a
    b = b
    None = None
    Addresses = {a, b}
    MaxInFlight = 3
INVARIANTS RouteIsShown WaitingHasItsCall
PROPERTY WaitingEnds
