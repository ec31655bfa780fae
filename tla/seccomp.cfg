SPECIFICATION Spec
CONSTANTS
    Names <- MCNames
    Number <- MCNumber
    Known <- MCKnown
    Dangerous <- MCDangerous
    Profiles <- MCProfiles
    NoProfile = NoProfile
    Calls <- MCCalls
    HalfU16 = 8
    MaxInsns = 13
INVARIANTS
    FilterInv
    NoPrefixInstalled
    RefusedOnlyForSize
PROPERTY ImplementsPolicy
