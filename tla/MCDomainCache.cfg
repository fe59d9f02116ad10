\* Two policy threads and one API thread, calling what they call in production.
CONSTANTS
    p1 = p1
    p2 = p2
    api = api
    Policy = Policy
    Api = Api
    d1 = d1
    d2 = d2
    NoThread = NoThread
    Thread <- TwoOneThreads
    Process <- BothProcesses
    ProcessOf <- Placement
    MethodsOf <- AsDeployed
    Domain <- OneDomain
    MaxGen = 2
SPECIFICATION Spec
INVARIANTS
    SnapshotAgrees
    AcknowledgedSurvive
    ContainsIsCurrent
PROPERTIES
    ReplaceSawTheFile
SYMMETRY HandlerSymmetry
