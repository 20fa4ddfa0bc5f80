SPECIFICATION FairSpec
CONSTANTS
  Capacity = 1
  OutputLimit = 1
  Client = {}
  None = None
  Faulty = {"store", "signal", "stdout", "group", "poll"}
  MaxChunks = 1
  MaxSignals = 2
  MaxLines = 1
INVARIANTS
  TypeOK
  NoOutputLost
  FinalScanAlone
PROPERTY SupervisionEnds
