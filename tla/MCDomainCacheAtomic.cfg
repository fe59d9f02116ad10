\* The daemon adds while the API removes: its copy may be stale.
CONSTANTS
    p1 = p1
    p2 = p2
    api = api
    Policy = Policy
    Api = Api
    d1 = d1
    d2 = d2
    NoThread = NoThread
    Thread <- OneOneThreads
    Process <- BothProcesses
    ProcessOf <- Placement
    MethodsOf <- AddAgainstReplace
    Domain <- OneDomain
    MaxGen = 3
SPECIFICATION FairSpec
PROPERTIES
    ImplementsAtomicWhitelist
    NoResurrection
    LocksAreReleased
