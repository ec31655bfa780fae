SPECIFICATION Spec
CONSTANTS
    p1 = p1
    p2 = p2
    Paths <- MCPaths
    Disks = {d1, d2}
    MaxU32 = 2
    MaxU64 = 3
    Lines <- MCLines
SYMMETRY Symmetry
INVARIANTS
    TypeOK
    TyposCostNoClone
    LateFailureIsTheHosts
    LimitsAsAsked
    ValidatedIsLimited
