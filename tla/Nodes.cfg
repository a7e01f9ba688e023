SPECIFICATION NodesSpec
CONSTANTS
    Ids = {n1, n2, n3}
    Sids = {a, b, c}
    NoSid = NoSid
    Root = Root
    Slots = {s1, s2}
    Idle = Idle
    MaxTokens = 2
SYMMETRY Symmetric
CONSTRAINT Clean
INVARIANTS NodesTypeOK SidsDistinct  NewestTokenWorks
CHECK_DEADLOCK FALSE
