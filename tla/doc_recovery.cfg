SPECIFICATION FairSpec
CONSTANTS
  MaxRuns = 4
  MaxIntake = 2
  Dates = {1}
  Requests <- OneDateEach
  QueueMax = 1
  MaxGeneration = 1
  MaxDisruptions = 2
  MaxFaults = 0
  OperatorRetries = FALSE
  Outcomes = {"complete"}
PROPERTY
  QueuedManualRunsSurvive
