SPECIFICATION Spec
CONSTANTS
    Holders = {"ann", "bob", "cid"}
    Codes = {"gift"}
    Extending = {"gift"}
    MaxUses <- MCMaxUses
    Slots = {"s1", "s2"}
    Idle = Idle
INVARIANTS OncePerUser UsesCounted
CHECK_DEADLOCK FALSE
