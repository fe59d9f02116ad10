\* A manual and a public synchronisation race each other and a first mail.
CONSTANTS
    r1 = r1
    r2 = r2
    mail = mail
    d1 = d1
    d2 = d2
    s1 = s1
    s2 = s2
    NoThread = NoThread
    ApiThread <- TwoRequests
    Handler <- OneHandler
    Domain <- TwoDomains
    Ours <- OurDomain
    Server <- OneServer
    Allowed <- BothSyncs
    MaxGen = 4
    MaxClient = 2
SPECIFICATION FairSpec
INVARIANTS
    AcceptedStayCached
PROPERTIES
    NeverEmptied
    AdminLockIsReleased
