SPECIFICATION PartsSpec
CONSTANTS
  File = {"f", "g"}
  Dir = {"d"}
  Root = "root"
  Parent <- WorkspaceParent
  Ignored = {"f"}
  MaxPending = 2
  Faulty = {"race", "limit", "read", "store"}
  None = None
  CloneFile = {"f", ".git"}
  CloneDir = {"d"}
  CloneSymlink = {"l"}
  CloneRoot = "top"
  CloneParent <- ClonedParent
  CloneGit = ".git"
  CloneFaulty = {"io", "crash"}
  TreeDir = {"d", "e"}
  TreeFile = {"f"}
  TreeLink = {"l"}
  TreeTop = "top"
  TreeParent <- CheckoutParent
  TreeContent = {"t1"}
  FileContent = {"f1", "f2"}
  CheckoutFaulty = {"load", "disk", "race", "crash"}
  ReplayedRun <- Timeline
  Process = {"p", "q"}
  Size <- Sizes
  TimelinePage = 3
  TickSteps = 2
  Differing <- Changes
  MaxChanges = 2
  Capacity = 3
  MaxId = 5
  ObjectPage = 2
  MaxPath = 3
  Entries <- SavedEntries
  MaxRun = 4
  ExportedRun <- WholeRun
  Holds <- SnapshotObjects
  ExportPage = 3
INVARIANTS
  UnsavedIsNoticed
  PagesConnect
  PanesMatchSelection
  CheckoutAllOrNothing
  CollectsExactly
  ComparesExactly
  ExportsHoldTogether
PROPERTIES
  ScannedAsItWas
  CloneAsItWas
  ScansComeEventually
CHECK_DEADLOCK FALSE
