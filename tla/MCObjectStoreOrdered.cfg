SPECIFICATION Spec
CONSTANTS
  Process = {p1, p2}
  Object = {o1, o2}
  Shared = d1
  Directory = {d1}
  None = None
  FanOut <- OneDirectory
  Faulty = {"create", "write", "sync", "link", "syncdir", "unlink", "record"}
  PowerFails = TRUE
  Ordered = TRUE
SYMMETRY Symmetry
INVARIANTS
  TypeOK
  ReferencesSurvive
PROPERTIES
  ReadersFindReferences
  ImplementsDurableObjects
