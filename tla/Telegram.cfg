SPECIFICATION Spec
CONSTANTS
    Keys = {"bot", "days"}
    Default <- TwoKeys
    Values = {"off", "A", "B"}
    Missing = "missing"
    Rejected <- OneBad
    Procs = {"r1", "r2", "loop"}
    Idle = Idle
    MaxWrites = 2
    MaxCrashes = 1
    MaxFailures = 1
    BotKey = "bot"
    Off = "off"
    Loop = "loop"
    None = None
INVARIANTS CacheFresh
PROPERTIES BotFollowsSettings
CHECK_DEADLOCK FALSE
