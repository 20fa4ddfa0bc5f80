SPECIFICATION Spec
CONSTANTS
  Runs = {r1}
  Snapshots = {s1}
  None = None
  Batch = 2
  Faulty = {"finish"}
  MaxEvents = 4
  MaxClock = 0
INVARIANT CompletionIsAtomic
