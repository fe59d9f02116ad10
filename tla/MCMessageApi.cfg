\* Two requests, or a request and the janitor, while the server is changed.
CONSTANTS
    r1 = r1
    r2 = r2
    a = a
    b = b
    s1 = s1
    s2 = s2
    Janitor = Janitor
    None = None
    Request <- TwoRequests
    Address <- TwoAddresses
    Server <- TwoServers
    Id <- TwoIds
    Crews <- AnyTwo
    Recipients <- TheirMail
    Alike <- LooksAlike
    Limit = 1
    Batch = 2
SPECIFICATION Spec
INVARIANTS
    StreamsClosed
    PagesShowAll
PROPERTIES
    OwnersOnly
    JanitorSparesNew
    JanitorEnds
