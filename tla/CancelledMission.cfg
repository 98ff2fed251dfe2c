\* Two handler threads: one cancels a mission while the other activates it.
SPECIFICATION ControlSpec
CONSTANTS
  m1 = m1  c1 = c1  c2 = c2  w1 = w1  t1 = t1  t2 = t2
  None = None
  Mission <- OneMission
  Guarded = {}
  Steps <- TwoSteps
  Client <- TwoClients
  TaskId <- Ids2
  MaxTasks = 2
  MaxAttempts = 2
  MaxProposals = 1
  Overtake = FALSE
  Faults = TRUE
CHECK_DEADLOCK FALSE
INVARIANTS CancelledIsNotExecuted
