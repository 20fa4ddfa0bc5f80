SPECIFICATION FairSpec
CONSTANTS
  Capacity = 1
  OutputLimit = 1
  Client = {c1, c2}
  None = None
  Faulty = {"store", "kill"}
  MaxChunks = 0
  MaxSignals = 0
  MaxLines = 0
INVARIANTS
  AnswersHonest
PROPERTY ClientsAnswered
