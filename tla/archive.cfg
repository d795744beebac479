SPECIFICATION Spec
CONSTANTS
  p1 = p1  p2 = p2  f1 = f1  f2 = f2  f3 = f3  w1 = w1  w2 = w2
  host = host  top = top  sub = sub  deep = deep  off = off  ea = ea  eb = eb  r1 = r1  r2 = r2
  None = None
  Unattributed = Unattributed
  Tolerance = 1
  Divergence = 1
  MaxActivitySlices = 2
  HostPattern <- MCHostPattern
  Folders <- MCFolders
  MatchedBy <- MCMatched
  Date = 1
  Pinned = home
  Star = Star
  Question = Question
  TypeOf <- MCTypeOf
  Summaries <- MCSummaries
  Heartbeats <- MCHeartbeats
  Dumps <- MCDumps
  RuleIds = {r1, r2}
  Rules <- MCRules
  Manifests <- MCManifests
  Classes = {"personal"}
  MaxRevision = 3
INVARIANTS DayIsOneAnswer AllocationsFollow OnlyWorkIsTold
PROPERTIES DetailSurvives RulesChangeAsForeseen
SYMMETRY MCSymmetry
CHECK_DEADLOCK FALSE
