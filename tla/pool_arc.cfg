SPECIFICATION Spec
CONSTANTS
  Frames = {f1, f2}
  Files = {file1}
  MaxPages = 3
  Deletable <- FirstPages
  Guards = {g1, g2}
  Values = {Zero}
  Zero = Zero
  Torn = Zero
  Absent = Absent
  NoFrame = NoFrame
  NoKey = NoKey
  Faults = {"read", "write", "reserve"}
SYMMETRY Symmetry
INVARIANTS
  VictimAgrees
  RemoveNeverTerminates
PROPERTIES
  ImplementsBufferPool
