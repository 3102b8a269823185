SPECIFICATION Spec
CONSTANTS
    Workers = {w1, w2}
    Clients = {c1}
    Keys = {k1}
    Schedules = {s1}
    Variants = {v1}
    Interval = 1
    IntervalOf <- MCIntervalOf
    None = None
    StaleTimeout = 1
    MaxTask = 2
    MaxTime = 1
    MaxFaults = 1
    MaxStops = 0
SYMMETRY WorkerSymmetry
INVARIANTS
    TypeOK
    ScheduleNeverAhead
PROPERTIES
    FiresDueSlotOnce
