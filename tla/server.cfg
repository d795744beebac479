SPECIFICATION Spec
CONSTANTS
  None = None
  s1 = s1
  s2 = s2
  migrate = migrate
  a = a
  b = b
  Servers <- TwoServers
  Scripts <- OneScript
  Build <- Builds
  Ids <- TwoIds
  Editors = {1, 2}
  Answers <- AllAnswers
  MaxPages = 3
  MaxRows = 2
  MaxGeneration = 2
  MaxRefreshes = 2
  MaxDisruptions = 2
INVARIANTS RegistryIsRight OwnerIsAlone
PROPERTIES ServiceReturns
