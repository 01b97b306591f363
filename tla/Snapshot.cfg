SPECIFICATION FairSpec
CONSTANTS
  Mounts = {m1, m2}
  Arts = {a1}
  Parts = {p1, p2}
  Clients = {c1}
  All = All
  KeepRuns = 2
  MaxRequests = 1
  MaxChanges = 1
  MaxFaults = 1
INVARIANTS SnapshotTypeOK OutOfSyncIsOwed
PROPERTIES PrunedWasGone CatchesUp
CHECK_DEADLOCK FALSE
