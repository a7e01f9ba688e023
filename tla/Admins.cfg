SPECIFICATION Spec
CONSTANTS
    Ids = {a1, a2}
    Chats = {"c1"}
    NoChat = NoChat
    Slots = {s1, s2}
    Idle = Idle
    MaxPasswords = 2
    MaxSessions = 1
    MaxCodes = 1
SYMMETRY Symmetric
CONSTRAINTS Clean OneChanges
INVARIANTS AdminsTypeOK SuperRemains OldSessionsEnd ChatOfOneAdmin
CHECK_DEADLOCK FALSE
