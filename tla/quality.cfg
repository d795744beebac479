SPECIFICATION Spec
CONSTANTS
  None = None
  Contents <- FourContents
  DayHours = 1
  RecentHours = 0
  ReconcileHours = 1
  CompareHours = 1
  ReconcileDays = 1
  CompareDays = 2
  MaxHour = 2
INVARIANTS QualityIsHonest
PROPERTIES SucceededHeals
VIEW Observed
