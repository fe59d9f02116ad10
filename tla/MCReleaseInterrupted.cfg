\* A signal ends the script.
CONSTANTS
    api = api
    janitor = janitor
    Unit <- TwoUnits
    Units <- InOrder
    Api = api
    Started <- OnlyApi
    Restarting <- OnlyApi
    Interrupts = TRUE
    MaxSaves = 1
CHECK_DEADLOCK FALSE
SPECIFICATION Spec
INVARIANTS
    RecoveryDataRetained
