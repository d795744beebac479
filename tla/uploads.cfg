SPECIFICATION Spec
CONSTANTS
  x = x  y = y
  None = None
  Tabs = {1, 2}
  SignIns <- MCSignIns
  Selections <- MCSelections
  Exports = {x, y}
  Size <- MCSize
  Days <- MCDays
  Sound = {x, y}
  SyncDates = {2}
  MaxSessions = 2
  MaxSubmits = 2
  MaxFaults = 1
INVARIANTS ReceivedIsOnDisk ImportsAreWhole
PROPERTIES ValidatedImports UploadsEnd
CHECK_DEADLOCK FALSE
