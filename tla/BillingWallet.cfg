SPECIFICATION Spec
CONSTANTS
    Users <- MCUsers
    Verified <- MCUsers
    Slots = {"s1"}
    Serves <- MCServes
    Editors = {}
    Plans <- MCPlans
    NoPlan = "noPlan"
    PlanOffers = {"basicMonth", "proMonth"}
    PlanOf <- MCPlanOf
    Packages = {"pack"}
    Bytes <- MCBytes
    Price <- MCPrice
    Days <- MCDays
    RenewOffShelf = {"basic"}
    Retirable = {}
    AdminCalls = {FALSE}
    OrderTimeout = 0
    CodeDays = 1
    CodeBytes = 1
    Adjustments = {3}
    MaxTime = 2
    MaxOrders = 2
    MaxRows = 2
    MaxBytes = 0
    Horizon = 2
INVARIANTS TypeOK LedgerMatches NoFreeMoney OneOpenOrder
PROPERTIES EntitlementSpec
