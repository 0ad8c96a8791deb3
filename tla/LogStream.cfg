\* Two instances that log up to two entries each, one of a provider that honours
\* the time it is asked for and one that does not; the merged channel holds one
\* entry, so forwarders wait for it.
SPECIFICATION Spec
CHECK_DEADLOCK FALSE
CONSTANTS
  Sources = {s1, s2}
  Exact = {s1}
  Capacity = 1
  TailLines = 1
  MaxLines = 2
  MaxCommands = 2
INVARIANT SentFaithfully
PROPERTY NothingLeaks
