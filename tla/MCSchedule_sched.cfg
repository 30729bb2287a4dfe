CONSTANTS
    s1 = s1
    s2 = s2
    MaxTasks = 1
    MaxOps = 2
    Recurrences = {"null", "cron", "bad"}
    Sessions = {s1, s2}
    SessionOf <- SeriesApart
    MaxBroken = 1
    MaxFaults = 1
SPECIFICATION FairSpec
INVARIANTS TypeOK FiresAccounted SilencedSoon
PROPERTIES  NoFireLost ArmedFires
