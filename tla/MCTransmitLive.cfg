SPECIFICATION DriverSpec
CONSTANTS
    MaxSteps = 2
    MaxExtensions = 2
    Second <- MCSecond
    Half <- MCHalf
    LeaseSeconds <- MCLeaseSeconds
    ClaimExpiries <- MCClaimExpiries
    Now <- MCNow
PROPERTIES
    CancelStops
    TurnResolved
