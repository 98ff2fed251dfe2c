\* A mission, with a DAG of two steps or without, that needs approvals or does not,
\* served by one handler at a time and one worker, through crashes, restarts and
\* store calls that raise; and the worker's loop on two tasks.
SPECIFICATION ControlSpec
CONSTANTS
  m1 = m1  c1 = c1  c2 = c2  w1 = w1  t1 = t1  t2 = t2
  None = None
  Mission <- OneMission
  Guarded = {}
  Steps <- TwoSteps
  Client <- OneClient
  TaskId <- Ids2
  MaxTasks = 2
  MaxAttempts = 2
  MaxProposals = 1
  Overtake = FALSE
  Faults = TRUE
CHECK_DEADLOCK FALSE
INVARIANTS WithdrawnIsNotQueued ProgressIsCurrent SuccessIsOfThisAttempt
PROPERTIES RunningMissionsEnd DueTasksAreServed ClaimedTasksEnd
