SPECIFICATION RegistrationSpec
CONSTANTS
    People = {"ann"}
    Invites = {"i1", "i2"}
    Sizes = {1}
    Quota <- MCQuota
    Slots = {"s1", "s2"}
    Admin = "admin"
    Idle = Idle
    MaxTokens = 2
INVARIANTS   OneLink
CHECK_DEADLOCK FALSE
