SPECIFICATION Spec
SYMMETRY MCSymmetry
CONSTANTS
    Processes = {p1, p2, p3, p4}
    Configs <- MCConfigs
    Outdated <- MCOutdated
    InitialRecords <- MCInitialRecords
    NoConfig = NoConfig
    CurrentVersion = 3
    MinimumReadable = 1
    Serial = TRUE
    c1 = c1
    c2 = c2
    old = old
    p1 = p1
    p2 = p2
    p3 = p3
    p4 = p4
INVARIANTS
    NoOverwrite
PROPERTIES
    TornKept
    SuccessMeansDone
