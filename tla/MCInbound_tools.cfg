CONSTANTS
    MaxMsgs = 1
    Kinds = {"chat"}
    Quarantine = 2
    SpawnThreshold = 1
    HeartbeatStale = 2
    IdleTimeout = 1
    BackoffSteps <- OneStep
    Tools = TRUE
    SpawnFaults = FALSE
    MaxDeaths = 1
    MaxHostCrashes = 0
SPECIFICATION Spec
INVARIANTS FailedIsTold
