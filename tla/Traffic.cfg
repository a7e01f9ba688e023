SPECIFICATION FairSpec
CONSTANTS
    Users = {"ann"}
    Nodes = {"n", "v"}
    ParentOf <- MCParentOf
    Deltas = {0, 1}
    Halves = {3}
    PlanQuotas <- MCPlanQuotas
    PackageBytes = {2}
    MonthLength = 2
    MaxTotal = 3
    MaxGrants = 2
    MaxDay = 2
    MaxRestarts = 1
    MaxFailures = 1
INVARIANTS TrafficTypeOK  ChargedInOrder  ResetBound
 
CHECK_DEADLOCK FALSE
