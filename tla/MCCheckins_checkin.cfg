CONSTANTS
    g1 = g1
    c1 = c1
    Goals = {g1}
    Conditions = {c1}
    MaxDefs = 2
    MaxBudget = 1
    MaxOps = 3
    MaxFaults = 1
SPECIFICATION FairSpec
INVARIANTS TypeOK QuietWhenOver 
PROPERTIES  GoalChecksIn EdgeSeen
