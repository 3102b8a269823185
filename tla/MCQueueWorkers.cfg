SPECIFICATION Spec
CONSTANTS
    Workers = {w1, w2}
    Clients = {c1, c2}
    Keys = {k1}
    Schedules = {}
    Variants = {v1}
    Interval = 2
    IntervalOf <- MCIntervalOf
    None = None
    StaleTimeout = 2
    MaxTask = 2
    MaxTime = 4
    MaxFaults = 1
    MaxStops = 1
SYMMETRY Symmetry
INVARIANTS
    SingleConsumer
    HistoryMatchesTask
PROPERTIES
    CompletedIsFinal
    FailsForAReason
    ImplementsLifecycle
