CONSTANTS
    active = active
    sweep = sweep
    Passes <- OneLoop
    SweepPass = sweep
    MaxRows = 2
    MaxEmit = 1
    MaxParts = 2
    MaxAttempts = 2
    MaxCrashes = 1
    MaxFaults = 1
    SlowPass = FALSE
SPECIFICATION Spec
INVARIANTS TypeOK AckedImpliesSent AttemptBudget ExhaustedOnce NoLostLetter
PROPERTIES ImplementsOutbox
