SPECIFICATION Spec
CONSTANTS
    Runs = {r1, r2}
    Pids = {p1, p2}
    NoPid = NoPid
    Delegated <- MCDelegated
    Wants <- MCWants
SYMMETRY Symmetry
INVARIANT OwnLimitsOnly
