CONSTANTS
    MaxMsgs = 1
    Kinds = {"chat"}
    Quarantine = 2
    SpawnThreshold = 1
    HeartbeatStale = 1
    IdleTimeout = 1
    BackoffSteps <- TwoSteps
    Tools = FALSE
    SpawnFaults = TRUE
    MaxDeaths = 1
    MaxHostCrashes = 1
SPECIFICATION FairSpec
INVARIANTS TypeOK CrashCountJustified SweepApologyOnce
PROPERTIES EveryMessageHeard
