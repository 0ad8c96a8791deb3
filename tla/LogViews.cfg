\* Two sizes of the buffer, two sessions, two kinds of lines.
SPECIFICATION Spec
CHECK_DEADLOCK FALSE
CONSTANTS
  Caps = {1, 2}
  History = 1
  MaxLive = 1
  Chunks = 1
  MaxOpened = 4
  NoSocket = NoSocket
  Sessions = {s1, s2}
  Cap = 2
  MergedHistory = 1
  MergedLive = 1
  MaxEffects = 2
  Kinds = {k1, k2}
  Dated = {k2}
  NoSearch = NoSearch
  MaxLines = 3
INVARIANTS
  NumbersStartLive
  StatusIsTrue
  HistoriesComeFirst
  PillCountsArrivals
PROPERTIES
  ShowsATail
  MergedShowsATail
