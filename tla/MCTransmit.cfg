SPECIFICATION Spec
CONSTANTS
    MaxSteps = 2
    MaxExtensions = 3
    Second <- MCSecond
    Half <- MCHalf
    LeaseSeconds <- MCLeaseSeconds
    ClaimExpiries <- MCClaimExpiries
    Now <- MCNow
INVARIANTS
    TypeOK
    SettlementsMatchTurn
    UnrenewedNeverSettled
    UnrenewedInterrupted
    OneLeaseAtATime
    OneCallAtATime
    NoLeakedTurn
    OrphansNacked
    CountsTruthful
PROPERTIES
    RenewalsGrow
    InterruptsOwnTurn
    KeepsProtocol
    UsesTurnCall
