SPECIFICATION Spec
CONSTRAINT FewLate
CONSTANTS
  Byte = {"+", "CR"}
  Digit = {}
  IDENTIFIER_SIZE = 1
  DATA_SIZE = 1
  MAX_CALLBACKS = 2
  urcs <- MCUrcs
  NULL = "NULL"
  RX_BUFFER_SIZE = 5
  RX_BUFFER_ALMOST_FULL = 3
  COUNTER_SIZE = 10
  Overshoot = 1
  MaxLate = 1
INVARIANTS
  TypeOK
  FillBounded
  NoStall
  CountsAgree
PROPERTIES
  SuspensionHolds
  ReadsInOrder
