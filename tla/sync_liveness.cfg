SPECIFICATION FairSpec
CONSTANTS
  MaxRuns = 3
  MaxIntake = 2
  Dates = {1}
  Requests <- OneDateEach
  QueueMax = 2
  MaxGeneration = 2
  MaxDisruptions = 1
  MaxFaults = 1
  OperatorRetries = FALSE
  Outcomes <- OutcomesForLiveness
PROPERTIES
  CommitOnlyWhileWanted
  
  AutomaticRunsProceed
  CancelEndsRun
  ShutdownCompletes
