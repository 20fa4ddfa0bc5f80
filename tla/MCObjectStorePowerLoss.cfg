SPECIFICATION Spec
CONSTANTS
  Process = {p1, p2}
  Object = {o1, o2}
  Shared = d1
  Directory = {d1}
  None = None
  FanOut <- OneDirectory
  Faulty = {}
  PowerFails = TRUE
  Ordered = FALSE
SYMMETRY Symmetry
INVARIANT ReferencesReadable
