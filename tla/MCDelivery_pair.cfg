CONSTANTS
    active = active
    sweep = sweep
    Passes <- BothLoops
    SweepPass = sweep
    MaxRows = 1
    MaxEmit = 1
    MaxParts = 2
    MaxAttempts = 2
    MaxCrashes = 1
    MaxFaults = 1
    SlowPass = FALSE
SYMMETRY Loops
SPECIFICATION Spec
INVARIANTS OneSender NeverGivesUpEarly ResendBound
