SPECIFICATION FairSpec
CONSTANTS
  Runs = {r1}
  Snapshots = {s1}
  None = None
  Batch = 2
  Faulty = {"append", "commit", "finish", "object"}
  MaxEvents = 6
  MaxClock = 0
PROPERTY RunsSettle
INVARIANT OnlyTheLiveRunIsActive
