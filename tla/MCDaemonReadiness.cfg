SPECIFICATION Spec
CONSTANTS
    Daemon = daemon
    Others = {stranger, namesake, helper}
    Looks <- MCLooks
    daemon = daemon
    stranger = stranger
    namesake = namesake
    helper = helper
INVARIANTS
    TypeOK
    RootOutlivesDaemon
    LeftRunningReported
    SuccessMeansDone
PROPERTIES
    OnlyOwnedKilled
