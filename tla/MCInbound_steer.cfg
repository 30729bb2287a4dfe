CONSTANTS
    MaxMsgs = 2
    Kinds = {"chat", "reaction", "stop"}
    Quarantine = 2
    SpawnThreshold = 1
    HeartbeatStale = 1
    IdleTimeout = 1
    BackoffSteps <- OneStep
    Tools = FALSE
    SpawnFaults = FALSE
    MaxDeaths = 0
    MaxHostCrashes = 0
SPECIFICATION Spec
INVARIANTS FailedIsTold NoRework
