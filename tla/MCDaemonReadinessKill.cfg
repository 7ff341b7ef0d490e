SPECIFICATION Spec
CONSTANTS
    Daemon = daemon
    Others = {stranger, namesake, helper}
    Looks <- MCLooks
    daemon = daemon
    stranger = stranger
    namesake = namesake
    helper = helper
INVARIANTS
    KilledThenRemoved
