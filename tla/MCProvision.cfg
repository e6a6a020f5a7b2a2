SPECIFICATION Spec
VIEW DeadValuesAside
CONSTANTS
  Type = {1, 2}
  EMPTY = 0
  Cell <- MCCell
  Zero <- MCZero
  Blank <- MCBlank
  ItemList <- MCItemList
  Size = {1, 4}
  BLOCK_SIZE = 2
  SLOT_BLOCKS = 3
  MaxFaults = 2
  NULL = NULL
INVARIANTS
  SuccessMeansStored
  ReadIsNewest
  NotFoundIsAbsent
PROPERTIES
  ReadReturns
