SPECIFICATION QuietSpec
CONSTANTS
    Workers = {w1, w2}
    Clients = {}
    Keys = {k1}
    Schedules = {s1, s2}
    Variants = {v1, v2}
    Interval = 1
    IntervalOf <- MCIntervalOf
    None = None
    StaleTimeout = 1
    MaxTask = 2
    MaxTime = 1
    MaxFaults = 1
    MaxStops = 0
PROPERTIES
    EveryTaskSettles
    DueScheduleAttended
