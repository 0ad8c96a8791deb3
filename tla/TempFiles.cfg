\* Two requests for one or two sources; the sweep runs every tick and copies
\* live for two.
SPECIFICATION TempSpec
CHECK_DEADLOCK FALSE
CONSTANTS
  Sources = {a, b}
  Requests = {r1, r2}
  Copies = {f1, f2, f3}
  None = None
  TTL = 2
  Period = 1
  Horizon = 4
INVARIANT CopiesComeAndGo
