SPECIFICATION OperationsSpec
CHECK_DEADLOCK FALSE
CONSTANTS
    tr1 = tr1  tr2 = tr2  d1 = d1  d2 = d2  t1 = t1  t2 = t2
    c1 = c1  c2 = c2  p1 = p1  p2 = p2  k1 = k1  k2 = k2  r1 = r1  r2 = r2
    None = None
    Trigger <- TwoTriggers
    Cooldown <- TwoCooldowns
    Dispatcher <- TwoDispatchers
    TaskId <- TwoTasks
    MaxAttempts = 2
    MaxTriggers = 1
    Start = 2
    MaxTime = 1
    Nothing = Nothing
    Process <- TwoProcesses
    ProcessOf <- Threads
    Request <- TwoRequests
    Caller <- TwoCallers
    Key <- TwoKeys
    KeysOf <- AnyKeys
    Memory = FALSE
    Faults = TRUE
    MaxRecords = 1
    MaxCalls = 2
    Catalog <- MCCatalog
    DomainWords <- MCDomainWords
    Defaults <- MCDefaults
    BlockedWords = {"wipe"}
    Goals <- MCGoals
    Grants <- MCGrants
    DeniedPermissions = {"secrets"}
    ValidFor <- MCValidFor
    Executions = {"e"}
    MaxFreshCalls = 2
    MaxAudit = 4
    MaxDigitalCrashes = 1
    Tree <- MCTree
    Changed <- MCChanged
    ChangeRequests <- MCChangeRequests
    Workflows = {"CI", "lint"}
    Policies <- MCPolicies
    MaxPushes = 1
    MaxCiRuns = 2
    MaxCollections = 1
    CiEvents = {"push", "schedule"}
    CiConclusions = {"success", "failure"}
INVARIANTS PassedSnapshotIsOfTheCommit
