\* A synchronisation races a change of the settings and a first mail.
CONSTANTS
    r1 = r1
    r2 = r2
    mail = mail
    d1 = d1
    d2 = d2
    s1 = s1
    s2 = s2
    NoThread = NoThread
    ApiThread <- TwoRequests
    Handler <- OneHandler
    Domain <- TwoDomains
    Ours <- OurDomain
    Server <- TwoServers
    Allowed <- SyncAndSettings
    MaxGen = 2
    MaxClient = 2
SPECIFICATION Spec
PROPERTIES
    PublishedByClientInUse
    FrozenStaysFrozen
