SPECIFICATION Spec
CONSTANTS
  Frames = {f1, f2}
  Files = {file1}
  MaxPages = 3
  Deletable <- FirstPages
  Guards = {g1, g2}
  Values = {v1}
  Zero = Zero
  Torn = Torn
  Absent = Absent
  NoFrame = NoFrame
  NoKey = NoKey
  Faults = {"read", "write", "reserve"}
SYMMETRY Symmetry
INVARIANTS
  TypeOK
  TableMatchesFrames
  GuardKeepsItsPage
  OneWriterPerPage
  PinsCoverGuards
  EvictableIffUnpinned
PROPERTIES
  ReaderSeesStablePage
