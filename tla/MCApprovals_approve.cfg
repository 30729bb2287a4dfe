CONSTANTS
    cli = cli
    tap = tap
    e1 = e1
    e2 = e2
    Clis = {cli}
    Taps = {tap}
    Exposers = {e1, e2}
    MaxRows = 2
    MaxAsks = 3
    MaxCalls = 2
    MaxFaults = 1
SPECIFICATION Spec
SYMMETRY BrokerSymmetry
CHECK_DEADLOCK FALSE
INVARIANTS TypeOK  LapseIsFinal 
