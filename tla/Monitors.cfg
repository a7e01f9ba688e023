SPECIFICATION FairSpec
CONSTANTS
    Nodes = {n1, n2}
    Users = {u}
    NoForm = NoForm
    None = None
    Never = Never
    Window = 1
    MaxTime = 2
    MaxBytes = 2
    MaxChanges = 2
    MaxRestarts = 1
CONSTRAINT Apart
INVARIANTS NodeAlertsTrue TrafficAlertsBounded
PROPERTIES OverIsTold
CHECK_DEADLOCK FALSE
