CONSTANTS
    s1 = s1
    s2 = s2
    MaxTasks = 1
    MaxOps = 1
    Recurrences = {"null", "cron"}
    Sessions = {s1, s2}
    SessionOf <- SeriesApart
    MaxBroken = 1
    MaxFaults = 0
SPECIFICATION FairSpec
PROPERTIES OthersFire
