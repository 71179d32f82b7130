\* Two programs, one ended once; tokens of two minutes, one minute passes.
SPECIFICATION FairSpec
CONSTANTS
    Program = {p, q}
    Config = {"Android", "iOS"}
    Lifetime = 2
    TimeBound = 1
    CrashBound = 1
INVARIANTS
    AskedForCause
    WrongTimeOnce
PROPERTIES
    SignInEnds
CONSTRAINT
    OneBeyond
CHECK_DEADLOCK FALSE
