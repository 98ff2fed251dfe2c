\* One action proposed and approved twice while two executors work on it and
\* other processes advance, block and reconcile its ledger; a pull request that
\* is observed, a change that is proposed; two workers whose processes overlap,
\* crash and recover each other's task, with leases that run out after one tick.
SPECIFICATION WaySpec
CONSTANTS
  a1 = a1  a2 = a2  p1 = p1  d1 = d1  e1 = e1  e2 = e2  k1 = k1  k2 = k2
  None = None
  Rank <- RankOf
  Token <- TwoTokens
  Action <- OneAction
  Safe <- OneAction
  Proposer <- OneProposer
  Decider <- OneDecider
  Executor <- TwoExecutors
  MaxPending = 1
  MaxProposals = 2
  MaxDecisions = 2
  Overlap = TRUE
  UseLedger = TRUE
  Heads = {1, 2}
  Signed = {1}
  Statuses = {"pending", "success", "failure"}
  Timelines <- TwoTimelines
  MemoryLimit = 4
  PerProject = 3
  MaxOtherEvents = 1
  MaxObservations = 3
  Base <- MCBase
  RegionText = {"old", "new", "edited", "password", "[REDACTED]"}
  SecretText = "password"
  Redacted = "[REDACTED]"
  Forbidden = {"workflow"}
  AffectedAreas = {{"app"}, {"app", "lib"}, {"workflow"}}
  Providers <- MCProviders
  Answers <- MCAnswers
  RevisionBounds = {0, 1}
  Edits <- MCEdits
  MaxEdits = 1
  w1 = w1  w2 = w2  t1 = t1
  NoTask = NoTask
  Worker <- TwoWorkers
  TaskId <- OneTask
  MaxAttempts = 3
  UseLeases = TRUE
  MaxActive = 2
  Ttl = 1
  MaxTime = 2
  WorkersOverlap = TRUE
  LockTimeouts = TRUE
SYMMETRY Symmetric
CHECK_DEADLOCK FALSE
INVARIANTS OneRunPerAction ReportedIsExecuted TokensAreAudited ObservationsNeverGoBack CommittedIsReviewed NoAutomaticReplay LeaseExclusion
PROPERTIES ImplementsLifecycle
