SPECIFICATION Spec
CONSTANTS
    Second = 2
    Half = 16
    Leases <- MCLeases
    MaxCall = 1
    MaxStart = 1
    MaxTime = 16
INVARIANTS
    LeaseKept
    LeadBounded
CHECK_DEADLOCK FALSE
