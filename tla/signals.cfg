SPECIFICATION Spec
CONSTANT
    Order <- MCTwo
INVARIANTS
    SignalInv
    NeverOrphaned
    CommandUnmasked
    OwedOnItsWay
PROPERTIES
    OnlyEarlyLoss
    Reaches
    StrayOnlyAtTheEnd
