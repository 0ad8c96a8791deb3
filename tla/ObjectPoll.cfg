\* A plain object and a compressed one; two changes, one call that fails or breaks
\* off.  A line of one byte fits the scanner, one of two does not.
SPECIFICATION PollSpec
CHECK_DEADLOCK FALSE
CONSTANTS
  Keys = {a, b}
  Target = a
  Zipped = {b}
  Count = 1
  MaxLine = 1
  MaxBytes = 5
  MaxChanges = 2
  MaxFailures = 1
INVARIANT ShownWhole
PROPERTY GrowthIsShown
