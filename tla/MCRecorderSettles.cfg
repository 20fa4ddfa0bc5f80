SPECIFICATION Spec
CONSTANTS
  Runs = {r1}
  Snapshots = {s1, s2}
  None = None
  Batch = 2
  Faulty = {"create", "append", "running", "object"}
  MaxEvents = 6
  MaxClock = 1
SYMMETRY Symmetry
INVARIANTS
  SequenceLedger
  RecorderSettlesItsRun
  DurationCoversTimeline
PROPERTY ImplementsLifecycle
