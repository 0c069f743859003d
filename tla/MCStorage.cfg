SPECIFICATION FairSpec
CONSTANTS
    Tabs <- MCTabs
    Deployments <- MCDeployments
    Versions = {2}
    Calls <- MCCalls
    Ops = {"add", "put", "del", "clear", "create", "puts"}
    Keys = {"k1"}
    MaxOpens = 3
INVARIANTS
    DroppedInResetOnly
    HeldByConnections
PROPERTIES
    EndsWhenAlone
    ImplementsItemStore
CHECK_DEADLOCK FALSE
