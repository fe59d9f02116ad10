\* Failures, crashes and signals, in a release and in its roll-back.
CONSTANTS
    api = api
    janitor = janitor
    Unit <- TwoUnits
    Units <- InOrder
    Api = api
    Started <- OnlyApi
    Restarting <- OnlyApi
    Interrupts = TRUE
    MaxSaves = 2
CHECK_DEADLOCK FALSE
SPECIFICATION Spec
INVARIANTS
    TypeOK
    FailureLeavesNoTrace
    OldReleaseKept
    SettingsInForce
PROPERTIES
    RemovedOnlyUnused
