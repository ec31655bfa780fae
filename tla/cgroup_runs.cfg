SPECIFICATION Spec
CONSTANTS
    Runs = {r1, r2, r3}
    Pids = {p1, p2}
    NoPid = NoPid
    Delegated <- MCDelegated
    Wants <- MCWants
SYMMETRY Symmetry
INVARIANTS
    DirsAccounted
    HierarchyInv
    LimitsInForce
    LimitsExact
PROPERTIES
    ImplementsPrivateLimits
