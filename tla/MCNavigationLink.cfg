SPECIFICATION Spec
CONSTANTS
    a = a
    b = b
    None = None
    Addresses = {a, b}
    MaxInFlight = 2
INVARIANT LinkOpensItsAddress
