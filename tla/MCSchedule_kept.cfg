CONSTANTS
    s1 = s1
    s2 = s2
    MaxTasks = 1
    MaxOps = 2
    Recurrences = {"null", "cron", "bad"}
    Sessions = {s1, s2}
    SessionOf <- SeriesApart
    MaxBroken = 0
    MaxFaults = 0
SPECIFICATION Spec
PROPERTIES RecurrenceKept
