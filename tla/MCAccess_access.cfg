SPECIFICATION FairSpec
CONSTANTS
    Databases = {FALSE}
    People = {ann, bob}
    Owner = ann
    Accounts = {x, y}
    Scopes = {"everything", "subscription"}
    AzureScopes = {"subscription"}
    Everything <- Everywhere
    ManualChoices <- SomeChoices
    Callers = {c1, c2}
    Pass = pass
    MaxCalls = 3
    MaxChanges = 1
    MaxFailures = 1
    None = None
CHECK_DEADLOCK FALSE
INVARIANTS AdminRemains RowsFitSource
PROPERTIES HandMadeStands MirrorCatchesUp
