CONSTANTS
    active = active
    sweep = sweep
    Passes <- BothLoops
    SweepPass = sweep
    MaxRows = 1
    MaxEmit = 1
    MaxParts = 1
    MaxAttempts = 2
    MaxCrashes = 0
    MaxFaults = 1
    SlowPass = TRUE
SPECIFICATION FairSpec
PROPERTIES RecordIsFinal EveryRowSettles BacklogClears
