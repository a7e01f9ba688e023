SPECIFICATION Spec
CONSTANTS
    TicketIds = {"t1"}
    Slots = {s1, s2}
    Idle = Idle
    MaxMessages = 4
SYMMETRY Symmetric
CONSTRAINT Clean
INVARIANTS DotFollowsMessages ReplyReopened
PROPERTIES StatusFollowsTable
CHECK_DEADLOCK FALSE
