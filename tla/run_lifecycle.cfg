SPECIFICATION Spec
CONSTANTS
    Codes <- MCCodes
    Sigs <- MCSigs
INVARIANTS
    RunInv
    CommandOnlyAfterSetup
    NoLeakedChild
    ReportedStatus
    NobodyWaitsInCircle
PROPERTIES
    CleanupAfterContainer
    StepsRunOut
    ImplementsContract
    ChildReleased
    RunEnds
    OrphansReaped
