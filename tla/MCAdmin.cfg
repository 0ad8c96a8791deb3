SPECIFICATION Spec
CHECK_DEADLOCK FALSE
CONSTANTS
  u1 = u1
  n1 = n1
  h1 = h1
  h2 = h2
  v1 = v1
  v2 = v2
  Users = {u1}
  Everything = Everything
  Nothing = Nothing
  Accesses = {Everything, Nothing}
  Gone = Gone
  NoDialog = NoDialog
  NoQuestion = NoQuestion
  Pending = Pending
  MaxRequests = 3
  MaxUnderWay = 2
  Paths <- Tree
  Full = Full
  Names = {n1}
  Hosts = {h1, h2}
  Reachable = {h1}
  AnyHost = AnyHost
  NoProfile = NoProfile
  None = None
  MaxTests = 2
  MaxSteps = 4
  Values = {v1, v2}
  Ports = {v1}
  Empty = Empty
  Redacted = Redacted
  Numbers = {0, 1, 65}
  NaN = NaN
  NoRequest = NoRequest
  MaxSaves = 3
INVARIANTS
  SettledRowsAreCurrent
  TestsAreToldApart
  ReopensAsSaved
  SettledSettingsAgree
PROPERTIES
  AccessFollowsClicks
  OthersEditsSurvive
