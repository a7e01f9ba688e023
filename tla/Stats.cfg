SPECIFICATION StatsSpec
CONSTANTS
    Users = {u1, u2}
    Nodes = {n1, n2}
    Legacy = Legacy
    All = All
    Raw = {0, 1}
    Halves = {2, 3}
    DayLength = 2
    HourlySpan = 2
    MaxSpan = 4
    Retention = 4
    MaxHour = 5
    MaxDeltas = 2
    MaxBatch = 2
SYMMETRY Symmetric
INVARIANTS PagesTrue BilledClose
CHECK_DEADLOCK FALSE
