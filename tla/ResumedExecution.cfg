\* Calls of execute_plan one after the other under two identities, with retries,
\* budgets and crashes anywhere; adaptive executions called again; task graphs.
SPECIFICATION PlansSpec
CONSTANTS
  r1 = r1  i1 = i1  i2 = i2
  None = None
  Runner <- OneRunner
  Identity <- TwoIdentities
  Steps = 3
  MaxRetries = 1
  MaxCalls = 4
  Budget = 4
  Plans <- MCPlans
  Tools <- MCTools
  Replacements <- MCReplacements
  RetryBounds = {0, 1}
  ReplanBounds = {0, 1}
  ReplacementLimit = 2
  MaxAdaptiveCalls = 2
  NodeIds <- FiveNodes
  Submissions <- AllGraphs
  Grantings <- AllOrTwo
  DagLimit = 4
  WorkflowLimit = 3
CHECK_DEADLOCK FALSE
INVARIANTS AdaptedPlanIsVerified OrdersAreTopological FailureReachesDependents
PROPERTIES NoReplay ImplementsPlan
