SPECIFICATION Spec
CONSTANTS
  Runs = {r1, r2, r3}
  Snapshots = {s1}
  None = None
  MaxEvents = 1
  MaxTime = 0
  ClientKinds = {}
  ClientReasons = {"initial"}
  ClientStatuses = {"completed"}
SYMMETRY Symmetry
INVARIANT AncestryWellFounded
PROPERTY LifecycleForward
