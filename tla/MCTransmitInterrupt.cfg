SPECIFICATION Spec
CONSTANTS
    MaxSteps = 1
    MaxExtensions = 2
    Second <- MCSecond
    Half <- MCHalf
    LeaseSeconds <- MCLeaseSeconds
    ClaimExpiries <- MCClaimExpiries
    Now <- MCNow
INVARIANTS
    CancelInterruptsTurn
