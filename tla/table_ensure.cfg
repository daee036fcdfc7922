SPECIFICATION Spec
CONSTANTS
  Tuples = {1, 3}
  Size <- Sizes
  PageSize = 5
  HeaderSize = 1
  SlotSize = 1
  Empty = Empty
  MaxPages = 3
  NoPage = NoPage
  BatchSize = 2
  NewTuple <- Swapped
  ValueLists <- Lists
  Predicates <- Wheres
INVARIANTS
  EndsOnlyIfTooLarge
CHECK_DEADLOCK FALSE
