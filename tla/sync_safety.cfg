SPECIFICATION Spec
CONSTANTS
  MaxRuns = 4
  MaxIntake = 2
  Dates = {1, 2}
  Requests <- DatesAndRegistry
  QueueMax = 1
  MaxGeneration = 1
  MaxDisruptions = 2
  MaxFaults = 0
  OperatorRetries = TRUE
  Outcomes <- OutcomesForSafety
INVARIANTS
  RecoveryIsExact
  RunningRunIsOwned
  SucceededIsAccepted
  TerminalRunHasTerminalDates
PROPERTIES
  NothingForgottenAtBoot
  TerminalRunsSettle
