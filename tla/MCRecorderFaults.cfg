SPECIFICATION Spec
CONSTANTS
  Runs = {r1}
  Snapshots = {s1, s2}
  None = None
  Batch = 2
  Faulty = {"create", "append", "commit", "running", "finish", "load", "object"}
  MaxEvents = 7
  MaxClock = 0
SYMMETRY Symmetry
INVARIANTS
  TypeOK
  CheckpointsAgree
  OneCheckpointAtATime
  CompletedRunsAreWhole
  SnapshotsCommitted
  InterruptionsJournalled
