\* Two logging goroutines and two streams: a ring of two slots wraps, and
\* channels of one entry fill, within three entries.
SPECIFICATION Spec
CHECK_DEADLOCK FALSE
CONSTANTS
  Writers = {w1, w2}
  Followers = {f1, f2}
  Size = 2
  Capacity = 1
  Tails = {0, 2}
  MaxEntries = 3
INVARIANTS
  SnapshotIsTail
  FollowedFaithfully
PROPERTY PanicOnlyOnCopiedChannel
