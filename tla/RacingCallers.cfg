\* Two coding commands for the same finding, two approval commands that race,
\* die and come again, and a GitHub that fails or loses its answers; two handler
\* threads that approve, resume and cancel one mission, and a worker that
\* overtakes them; two calls for one execution id that crash anywhere.
SPECIFICATION RacingSpec
CONSTANTS
  a1 = a1  a2 = a2  r1 = r1  r2 = r2  m1 = m1  NoValue = NoValue
  Run <- TwoRuns
  Cli <- TwoCallers
  Faults = TRUE
SYMMETRY Symmetric
CHECK_DEADLOCK FALSE
INVARIANTS BegunOnce BranchWasAuthorized ExecutedHasPullRequest OneItemPerApproval StepsInOrder
PROPERTIES ForeignWorkKept
