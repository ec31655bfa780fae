SPECIFICATION Spec
CONSTANTS
    Caps <- MCCaps
    Depth = 3
    MaxRuns = 1
INVARIANT TornDown
