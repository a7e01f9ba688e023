SPECIFICATION RemindersSpec
CONSTANTS
    People = {"u1"}
    Chats = {c1, c2}
    NoChat = NoChat
    Verified = {"u1"}
    Choices = {"auto", "email"}
    Slots = {s1, s2}
    Idle = Idle
    Unset = Unset
    Cooldown = 2
    MaxDays = 4
    MaxCodes = 2
    MaxFailures = 1
SYMMETRY Symmetric
CONSTRAINT Clean
INVARIANTS RemindersTypeOK RemindersSpaced LinkAsked
CHECK_DEADLOCK FALSE
