SPECIFICATION Spec
CONSTANTS
    Codes <- MCCodes
    Sigs <- MCSigs
INVARIANTS
    CommandNeverInit
