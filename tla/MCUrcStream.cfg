SPECIFICATION Spec
CONSTANTS
  Byte = {"+", "A", ":", "CR", "LF", "0"}
  Digit = {"0"}
  IDENTIFIER_SIZE = 2
  DATA_SIZE = 1
  MAX_CALLBACKS = 3
  urcs <- MCUrcs
  NULL = "NULL"
INVARIANTS
  MatchedSlotInUse
  CallsAreUrcs
  LinesAreDelivered
