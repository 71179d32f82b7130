\* One address, opened twice; two datagrams lost, repeated or late.
SPECIFICATION FairSpec
CONSTANTS
    Address = {a}
    LifeBound = 2
    FaultBound = 2
INVARIANTS
    ConnectedIsServed
    FailsForCause
    NoConnectionForgotten
PROPERTY
    AttemptsEnd
CHECK_DEADLOCK FALSE
