CONSTANTS
    active = active
    Loops = {active}
    MaxCalls = 2
    MaxOpen = 2
    Kinds <- EitherFirst
    MaxTasks = 1
    HostDeadline = 1
    RunnerDeadline = 2
    MaxFaults = 1
SPECIFICATION FairSpec
INVARIANTS TypeOK OnceWhileWaiting TimeoutJustified
PROPERTIES  RelayDrains
