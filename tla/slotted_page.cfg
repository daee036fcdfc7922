SPECIFICATION Spec
CONSTANTS
  Tuples = {1, 2, 3}
  Size <- Sizes
  PageSize = 9
  HeaderSize = 2
  SlotSize = 1
  Empty = Empty
INVARIANTS
  TypeOK
  NoOverlap
  SpaceAccounted
  RefusedOnlyIfFull
PROPERTIES
  ImplementsTupleSlots
