SPECIFICATION FairSpec
CONSTANTS
    Users <- MCUsers
    Verified <- MCUsers
    Slots = {"s1", "s2"}
    Serves <- MCServes
    Editors = {"s2"}
    Plans <- MCPlans
    NoPlan = "noPlan"
    PlanOffers = {"basicMonth"}
    PlanOf <- MCPlanOf
    Packages = {}
    Bytes <- MCBytes
    Price <- MCPrice
    Days <- MCDays
    RenewOffShelf = {"basic"}
    Retirable = {"basic"}
    AdminCalls = {FALSE, TRUE}
    OrderTimeout = 0
    CodeDays = 1
    CodeBytes = 1
    Adjustments = {3}
    MaxTime = 2
    MaxOrders = 1
    MaxRows = 1
    MaxBytes = 1
    Horizon = 0
INVARIANTS EffectOnce
PROPERTIES OrdersSettle CapturesAnswered
