SPECIFICATION JournalSpec
CONSTANTS
  Runs = {r1}
  Snapshots = {s1, s2}
  None = None
  MaxEvents = 3
  MaxTime = 1
  ClientKinds = {"Warning"}
  ClientReasons = {"initial", "final"}
  ClientStatuses = {"completed", "failed"}
SYMMETRY Symmetry
INVARIANTS
  StoreTypeOK
  TimelineOrdered
  CheckpointsJournalled
  TerminalRunsExplained
  WarningsIndexed
PROPERTY TerminalRunsFrozen
