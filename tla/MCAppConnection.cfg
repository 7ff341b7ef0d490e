SPECIFICATION FairSpec
CONSTANTS
    c1 = c1
    c2 = c2
    Connections <- MCConnections
    Methods <- MCMethods
    MaxNotes = 1
INVARIANTS
    TypeOK
    AnswersMatch
    InterruptReached
    SocketsClosed
PROPERTIES
    KeepsTurnCall
    CancelledTurnReturns
    CompletionHeard
