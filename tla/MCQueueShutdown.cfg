SPECIFICATION Spec
CONSTANTS
    Workers = {w1, w2}
    Clients = {c1}
    Keys = {k1}
    Schedules = {}
    Variants = {v1}
    Interval = 2
    IntervalOf <- MCIntervalOf
    None = None
    StaleTimeout = 1
    MaxTask = 1
    MaxTime = 2
    MaxFaults = 0
    MaxStops = 1
INVARIANT NoHalfProcessedTask
