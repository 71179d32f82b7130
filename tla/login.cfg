\* Every format of the login, one damaged batch, three packets of the application.
SPECIFICATION FairSpec
CONSTANTS
    Client = Client
    Server = Server
    Formats = {"legacy", "token", "authenticated"}
    AppBound = 3
    DamageBound = 1
INVARIANTS
    RefusedOnlyDamage
    StreamsAgree
    NothingNeededIsSkipped
    DoneTogether
    NeverBothWait
PROPERTY
    HandshakesEnd
CHECK_DEADLOCK FALSE
