\* Two API requests and one connection of the daemon, edits and restarts.
CONSTANTS
    r1 = r1
    r2 = r2
    mail = mail
    mail2 = mail2
    s1 = s1
    s2 = s2
    NoThread = NoThread
    Keep = Keep
    ApiThread <- TwoRequests
    Handler <- TwoMails
    Server <- TwoServers
    Changes <- SomeChanges
    Crews <- AnyTwo
    MaxGen = 2
SYMMETRY Alike
SPECIFICATION Spec
INVARIANTS
    PairsMatch
    MemoryAgrees
    EditsAreKept
    LengthsMeet
PROPERTIES
    ClientsMoveOn
